---- MODULE Spec2Model ----
(***************************************************************************)
(* Model of the wizard rule engine of gschpoozi's web frontend:            *)
(*   - the condition engine (tokenize, ConditionParser, evaluateCondition) *)
(*   - the implication resolver (applyImplications)                        *)
(*   - the conflict detector (detectConflicts)                             *)
(*   - the exclusive groups (selectOption)                                 *)
(*   - the stepper inheritance (applyInheritance)                          *)
(*   - the validator (validateState)                                       *)
(*   - the wizard store that merges the diffs (setField, setFields, ...)   *)
(*                                                                         *)
(* A JavaScript value is a record [t, s, n, a]:                            *)
(*   t = "undef"                    undefined (an absent key reads as this) *)
(*   t = "null"                     null                                   *)
(*   t = "str",  s = the string                                            *)
(*   t = "num",  n = the number in tenths (1.2 is 12, 4 is 40)             *)
(*   t = "bool", n = 1 for true, 0 for false                               *)
(*   t = "arr",  a = the sequence of element values                        *)
(* A wizard state (Record<string, any>) is a function from the keys that   *)
(* are present to their values.  Condition strings are TLA+ strings read   *)
(* character by character.                                                 *)
(***************************************************************************)
EXTENDS Integers, Sequences, FiniteSets, TLC

VARIABLES
    state,          \* wizardStore.state: the authoritative wizard state (in
                    \* SpecStore and SpecHistory the whole store object)
    rules,          \* the implication table in force
    userOverrides,  \* keys the user has explicitly set
    group,          \* the exclusive group of the last selectOption call
    op,             \* the last operation performed
    arg,            \* its string argument (condition, option value, stepper)
    result          \* what it returned

vars == <<state, rules, userOverrides, group, op, arg, result>>

----------------------------------------------------------------------------
(* JavaScript values *)

Undefined == [t |-> "undef", s |-> "", n |-> 0, a |-> <<>>]
Null      == [t |-> "null",  s |-> "", n |-> 0, a |-> <<>>]
Str(x)    == [t |-> "str",  s |-> x,  n |-> 0, a |-> <<>>]
Tenths(x) == [t |-> "num",  s |-> "", n |-> x, a |-> <<>>]
Num(x)    == Tenths(10 * x)
Bool(b)   == [t |-> "bool", s |-> "", n |-> IF b THEN 1 ELSE 0, a |-> <<>>]
Arr(xs)   == [t |-> "arr",  s |-> "", n |-> 0, a |-> xs]

JsTrue  == Bool(TRUE)
JsFalse == Bool(FALSE)

\* state[key]: a key that is not present reads as undefined
Get(st, key) == IF key \in DOMAIN st THEN st[key] ELSE Undefined

\* Boolean(v)
Truthy(v) ==
    CASE v.t = "undef" -> FALSE
      [] v.t = "null"  -> FALSE
      [] v.t = "str"   -> v.s # ""
      [] v.t = "num"   -> v.n # 0
      [] v.t = "bool"  -> v.n = 1
      [] v.t = "arr"   -> TRUE

\* a === b; two array values are never the same object
StrictEq(x, y) ==
    IF x.t = "arr" \/ y.t = "arr" THEN FALSE ELSE x = y

\* Array.prototype.includes(v)
RECURSIVE Includes(_, _)
Includes(xs, v) ==
    IF xs = <<>> THEN FALSE
    ELSE StrictEq(Head(xs), v) \/ Includes(Tail(xs), v)

----------------------------------------------------------------------------
(* Characters *)

\* str[i] (1-based); the empty string outside the string
Ch(str, i) == IF i >= 1 /\ i <= Len(str) THEN SubSeq(str, i, i) ELSE ""

Digits == "0123456789"
Lowers == "abcdefghijklmnopqrstuvwxyz"
Uppers == "ABCDEFGHIJKLMNOPQRSTUVWXYZ"
\* the printable ASCII characters in code order (the backquote left out),
\* for string comparison
Ascii == " !\"#$%&'()*+,-./0123456789:;<=>?@ABCDEFGHIJKLMNOPQRSTUVWXYZ[\\]^_abcdefghijklmnopqrstuvwxyz{|}~"

\* F applied to x: x is computed once and named in F
With(x, F(_)) == F(x)

\* the least element of a set of numbers, 0 when the set is empty
Least(S) == IF S = {} THEN 0 ELSE CHOOSE i \in S : \A j \in S : i <= j

\* position of character c in str, 0 when it does not occur
IndexOf(str, c) == Least({i \in 1..Len(str) : Ch(str, i) = c})

IsDigit(c) == c # "" /\ IndexOf(Digits, c) > 0
IsAlpha(c) == c # "" /\ (IndexOf(Lowers, c) > 0 \/ IndexOf(Uppers, c) > 0)
IsSpace(c) == c = " " \/ c = "\t" \/ c = "\n"
IsIdStart(c) == IsAlpha(c) \/ c = "_"
IsIdChar(c) == IsAlpha(c) \/ IsDigit(c) \/ c = "_" \/ c = "."
DigitVal(c) == IndexOf(Digits, c) - 1

LowerCh(c) ==
    With(IndexOf(Uppers, c), LAMBDA i : IF i > 0 THEN Ch(Lowers, i) ELSE c)

\* String.prototype.toLowerCase, computed on the two halves of the string
RECURSIVE toLowerCase(_)
toLowerCase(str) ==
    IF Len(str) <= 1 THEN LowerCh(str)
    ELSE toLowerCase(SubSeq(str, 1, Len(str) \div 2))
             \o toLowerCase(SubSeq(str, (Len(str) \div 2) + 1, Len(str)))

\* str without its leading whitespace
TrimLeft(str) ==
    SubSeq(str,
           CHOOSE j \in 1..Len(str) + 1 :
               /\ j = Len(str) + 1 \/ ~IsSpace(Ch(str, j))
               /\ \A k \in 1..j - 1 : IsSpace(Ch(str, k)),
           Len(str))

\* str without its trailing whitespace
TrimRight(str) ==
    SubSeq(str, 1,
           CHOOSE j \in 0..Len(str) :
               /\ j = 0 \/ ~IsSpace(Ch(str, j))
               /\ \A k \in j + 1..Len(str) : IsSpace(Ch(str, k)))

\* String.prototype.trim
trim(str) == TrimRight(TrimLeft(str))

\* true when str has the text pat at position i
StartsWithAt(str, pat, i) ==
    i + Len(pat) - 1 <= Len(str) /\ SubSeq(str, i, i + Len(pat) - 1) = pat

\* the character classes the scanners use
InClass(cls, c) ==
    CASE cls = "digit"  -> IsDigit(c)
      [] cls = "number" -> IsDigit(c) \/ c = "."
      [] cls = "ident"  -> IsIdChar(c)
      [] cls = "space"  -> IsSpace(c)

\* first position >= i whose character is not in the class
SkipWhile(str, i, cls) ==
    CHOOSE j \in i..Len(str) + 1 :
        /\ j = Len(str) + 1 \/ ~InClass(cls, Ch(str, j))
        /\ \A k \in i..j - 1 : InClass(cls, Ch(str, k))

\* value of the digits str[i..j-1] read as a decimal integer
RECURSIVE DigitsVal(_, _, _, _)
DigitsVal(str, i, j, acc) ==
    IF i >= j THEN acc
    ELSE DigitsVal(str, i + 1, j, 10 * acc + DigitVal(Ch(str, i)))

\* decimal text of a natural number
RECURSIVE NatToStr(_)
NatToStr(k) ==
    IF k < 10 THEN Ch(Digits, k + 1)
    ELSE NatToStr(k \div 10) \o Ch(Digits, (k % 10) + 1)

\* String(number) for a number held in tenths
RECURSIVE NumToStr(_)
NumToStr(x) ==
    IF x < 0 THEN "-" \o NumToStr(-x)
    ELSE NatToStr(x \div 10) \o (IF x % 10 = 0 THEN "" ELSE "." \o NatToStr(x % 10))

\* a < b on strings: comparison by character code
RECURSIVE StrCompare(_, _)
StrCompare(x, y) ==
    IF x = "" /\ y = "" THEN "eq"
    ELSE IF x = "" THEN "lt"
    ELSE IF y = "" THEN "gt"
    ELSE IF Head(x) = Head(y) THEN StrCompare(Tail(x), Tail(y))
    ELSE IF IndexOf(Ascii, Head(x)) < IndexOf(Ascii, Head(y)) THEN "lt"
    ELSE "gt"

----------------------------------------------------------------------------
(* Number conversions.  Numbers are kept in tenths: of a fraction only the *)
(* first digit is read, which is exact for every number the model uses.    *)

NaN == [nan |-> TRUE, n |-> 0]
Finite(x) == [nan |-> FALSE, n |-> x]

\* the unsigned decimal str[i..]: its whole digits end before j and its
\* fraction, if any, before k
Unsigned(str, i, j, k) ==
    [n |-> 10 * DigitsVal(str, i, j, 0)
               + (IF k > j + 1 THEN DigitVal(Ch(str, j + 1)) ELSE 0),
     end |-> k,
     digits |-> (j - i) + (IF k > j THEN k - j - 1 ELSE 0)]

\* the unsigned decimal str[i..] up to its end: digits [. digits]
UnsignedTenths(str, i) ==
    With(SkipWhile(str, i, "digit"), LAMBDA j :
        Unsigned(str, i, j,
                 IF Ch(str, j) = "." THEN SkipWhile(str, j + 1, "digit") ELSE j))

\* parseFloat(num) of the text the tokenizer collected: [-] digit [0-9.]*
parseFloat(num) ==
    IF Ch(num, 1) = "-" THEN -UnsignedTenths(num, 2).n ELSE UnsignedTenths(num, 1).n

\* Number(t) of a string without whitespace around it
TrimmedToNumber(t) ==
    IF t = "" THEN Finite(0)
    ELSE With(UnsignedTenths(t, IF Ch(t, 1) = "-" \/ Ch(t, 1) = "+" THEN 2 ELSE 1),
              LAMBDA u :
                  IF u.end = Len(t) + 1 /\ u.digits > 0
                  THEN Finite(IF Ch(t, 1) = "-" THEN -u.n ELSE u.n)
                  ELSE NaN)

\* Number(string)
StringToNumber(str) == TrimmedToNumber(trim(str))

\* String(v) as Array.prototype.join uses it
RECURSIVE Join(_)
ToStr(v) ==
    CASE v.t = "undef" -> ""
      [] v.t = "str"   -> v.s
      [] v.t = "num"   -> NumToStr(v.n)
      [] v.t = "bool"  -> IF v.n = 1 THEN "true" ELSE "false"
      [] v.t = "arr"   -> Join(v.a)
Join(xs) ==
    IF xs = <<>> THEN ""
    ELSE IF Len(xs) = 1 THEN ToStr(xs[1])
    ELSE ToStr(xs[1]) \o "," \o Join(Tail(xs))

\* ToPrimitive: an array becomes its joined text
ToPrimitive(v) == IF v.t = "arr" THEN Str(Join(v.a)) ELSE v

\* Number(v) of a primitive
ToNumber(v) ==
    CASE v.t = "undef" -> NaN
      [] v.t = "str"   -> StringToNumber(v.s)
      [] v.t = "num"   -> Finite(v.n)
      [] v.t = "bool"  -> Finite(10 * v.n)

\* the abstract relational comparison of x and y: "lt", "eq", "gt" or
\* "nan" when the operands do not compare
CompareNumbers(nx, ny) ==
    IF nx.nan \/ ny.nan THEN "nan"
    ELSE IF nx.n < ny.n THEN "lt"
    ELSE IF nx.n > ny.n THEN "gt"
    ELSE "eq"

ComparePrimitives(px, py) ==
    IF px.t = "str" /\ py.t = "str" THEN StrCompare(px.s, py.s)
    ELSE CompareNumbers(ToNumber(px), ToNumber(py))

Compare(x, y) == ComparePrimitives(ToPrimitive(x), ToPrimitive(y))

----------------------------------------------------------------------------
(* Condition engine: tokenize *)

Token(type, value) == [type |-> type, value |-> value]
EOF == Token("EOF", Str(""))

\* the property names every object literal inherits from Object.prototype
ObjectPrototypeNames ==
    {"constructor", "hasOwnProperty", "isPrototypeOf", "propertyIsEnumerable",
     "toLocaleString", "toString", "valueOf", "__proto__", "__defineGetter__",
     "__defineSetter__", "__lookupGetter__", "__lookupSetter__"}

\* keywords[word]: the keywords table, an object literal; "" for a word
\* the lookup finds nothing for (undefined), "Object.prototype" for a word
\* the lookup finds in the prototype of the table (a function or an
\* object: truthy, and no token type)
keywords(word) ==
    CASE word = "and"   -> "AND"
      [] word = "or"    -> "OR"
      [] word = "not"   -> "NOT"
      [] word = "in"    -> "IN"
      [] word = "true"  -> "BOOLEAN"
      [] word = "false" -> "BOOLEAN"
      [] word = "True"  -> "BOOLEAN"
      [] word = "False" -> "BOOLEAN"
      [] word \in ObjectPrototypeNames -> "Object.prototype"
      [] OTHER          -> ""

operators == <<"==", "!=", "<=", ">=", "<", ">", "=">>

\* the first operator of the list found at position pos, "" when none is
RECURSIVE OperatorAt(_, _, _)
OperatorAt(condition, pos, i) ==
    IF i > Len(operators) THEN ""
    ELSE IF StartsWithAt(condition, operators[i], pos) THEN operators[i]
    ELSE OperatorAt(condition, pos, i + 1)

\* position of the first character quote at or after i, Len + 1 when none
ScanString(condition, i, quote) ==
    CHOOSE j \in i..Len(condition) + 1 :
        /\ j = Len(condition) + 1 \/ Ch(condition, j) = quote
        /\ \A k \in i..j - 1 : Ch(condition, k) # quote

\* the token made of the word id
WordToken(id) ==
    With(toLowerCase(id), LAMBDA lower :
    With(IF keywords(id) # "" THEN keywords(id) ELSE keywords(lower), LAMBDA type :
        IF type = "" THEN Token("IDENTIFIER", Str(id))
        ELSE IF type = "BOOLEAN" THEN Token("BOOLEAN", Bool(lower = "true"))
        ELSE Token(type, Str(id))))

Scanned(pos, tokens) == [pos |-> pos, tokens |-> tokens]

\* a tokenizer that stays on a character it does not know
SkipUnknownStuck(pos) == Scanned(pos, <<>>)

\* an unknown character is skipped
SkipUnknown(pos) == Scanned(pos + 1, <<>>)

\* one iteration of the while loop of tokenize at position pos: the next
\* position and the token pushed, if any
Scan(condition, pos) ==
    With(Ch(condition, pos), LAMBDA char :
    IF IsSpace(char) THEN Scanned(pos + 1, <<>>)
    ELSE IF char = "\"" \/ char = "'" THEN
        With(ScanString(condition, pos + 1, char), LAMBDA end :
            Scanned(end + 1, <<Token("STRING", Str(SubSeq(condition, pos + 1, end - 1)))>>))
    ELSE IF IsDigit(char) \/ (char = "-" /\ IsDigit(Ch(condition, pos + 1))) THEN
        With(SkipWhile(condition, IF char = "-" THEN pos + 1 ELSE pos, "number"), LAMBDA end :
            Scanned(end, <<Token("NUMBER", Tenths(parseFloat(SubSeq(condition, pos, end - 1))))>>))
    ELSE IF OperatorAt(condition, pos, 1) # "" THEN
        With(OperatorAt(condition, pos, 1), LAMBDA o :
            Scanned(pos + Len(o), <<Token("OPERATOR", Str(o))>>))
    ELSE IF char = "(" THEN Scanned(pos + 1, <<Token("LPAREN", Str("("))>>)
    ELSE IF char = ")" THEN Scanned(pos + 1, <<Token("RPAREN", Str(")"))>>)
    ELSE IF char = "[" THEN Scanned(pos + 1, <<Token("LBRACKET", Str("["))>>)
    ELSE IF char = "]" THEN Scanned(pos + 1, <<Token("RBRACKET", Str("]"))>>)
    ELSE IF char = "," THEN Scanned(pos + 1, <<Token("COMMA", Str(","))>>)
    ELSE IF IsIdStart(char) THEN
        With(SkipWhile(condition, pos, "ident"), LAMBDA end :
            Scanned(end, <<WordToken(SubSeq(condition, pos, end - 1))>>))
    ELSE SkipUnknown(pos))

\* the while loop of tokenize run for at most 2^k iterations from pos (the
\* iterations are grouped in halves to keep the evaluation shallow)
RECURSIVE TokenizeSteps(_, _, _)
TokenizeSteps(condition, pos, k) ==
    IF pos > Len(condition) THEN Scanned(pos, <<>>)
    ELSE IF k = 0 THEN Scan(condition, pos)
    ELSE With(TokenizeSteps(condition, pos, k - 1), LAMBDA first :
         With(TokenizeSteps(condition, first.pos, k - 1), LAMBDA second :
             Scanned(second.pos, first.tokens \o second.tokens)))

\* the least k with 2^k >= x
RECURSIVE Log2(_)
Log2(x) == IF x <= 1 THEN 0 ELSE 1 + Log2((x + 1) \div 2)

\* every iteration advances pos, so Len(condition) iterations reach the end
tokenize(condition) ==
    Append(TokenizeSteps(condition, 1, Log2(Len(condition))).tokens, EOF)

----------------------------------------------------------------------------
(* Condition engine: ConditionParser.  Each parse operator returns the     *)
(* value it computed and the parser position after it: [v, p].             *)

current(tokens, pos) == IF pos <= Len(tokens) THEN tokens[pos] ELSE EOF
peek(tokens, pos, offset) == current(tokens, pos + offset)
Ret(v, p) == [v |-> v, p |-> p]

\* the comparison switch of parseComparison
ApplyOperator(o, left, right) ==
    CASE o = "==" \/ o = "=" -> StrictEq(left, right)
      [] o = "!="            -> ~StrictEq(left, right)
      [] o = "<"             -> Compare(left, right) = "lt"
      [] o = "<="            -> Compare(left, right) \in {"lt", "eq"}
      [] o = ">"             -> Compare(left, right) = "gt"
      [] o = ">="            -> Compare(left, right) \in {"gt", "eq"}
      [] OTHER               -> FALSE

RECURSIVE parseOr(_, _, _), OrLoop(_, _, _), OrNext(_, _, _, _),
          parseAnd(_, _, _), AndLoop(_, _, _), AndNext(_, _, _, _),
          parseNot(_, _, _), parseComparison(_, _, _), ComparisonRest(_, _, _),
          parseArray(_, _, _), ArrayLoop(_, _, _, _), ArrayNext(_, _, _, _),
          parsePrimary(_, _, _)

\* skip the token after r when it is of the type given
SkipIf(tokens, type, r) ==
    IF current(tokens, r.p).type = type THEN Ret(r.v, r.p + 1) ELSE r

\* the array value of the items parseArray returned
ArrayValue(r) == Ret(Arr(r.v), r.p)

parsePrimary(tokens, st, pos) ==
    With(current(tokens, pos), LAMBDA token :
    CASE token.type \in {"STRING", "NUMBER", "BOOLEAN"} -> Ret(token.value, pos + 1)
      [] token.type = "IDENTIFIER" -> Ret(Get(st, token.value.s), pos + 1)
      [] token.type = "LPAREN" -> SkipIf(tokens, "RPAREN", parseOr(tokens, st, pos + 1))
      [] token.type = "LBRACKET" -> ArrayValue(parseArray(tokens, st, pos))
      [] OTHER -> Ret(Undefined, pos + 1))

\* the while loop of parseArray
ArrayLoop(tokens, st, items, pos) ==
    IF current(tokens, pos).type # "RBRACKET" /\ current(tokens, pos).type # "EOF"
    THEN ArrayNext(tokens, st, items, parsePrimary(tokens, st, pos))
    ELSE Ret(items, pos)

\* the rest of an iteration of the loop, r being the item parsed
ArrayNext(tokens, st, items, r) ==
    ArrayLoop(tokens, st, Append(items, r.v), SkipIf(tokens, "COMMA", r).p)

\* returns the sequence of items (not wrapped as a value)
parseArray(tokens, st, pos) ==
    IF current(tokens, pos).type # "LBRACKET" THEN Ret(<<>>, pos)
    ELSE SkipIf(tokens, "RBRACKET", ArrayLoop(tokens, st, <<>>, pos + 1))

\* right.includes(left), negated for 'not in'
InResult(left, r, negated) == Ret(Bool(Includes(r.v, left) # negated), r.p)

\* the result of the comparison o of left with the operand parsed as r
OperatorResult(o, left, r) == Ret(Bool(ApplyOperator(o, left, r.v)), r.p)

parseComparison(tokens, st, pos) ==
    ComparisonRest(tokens, st, parsePrimary(tokens, st, pos))

\* parseComparison after its left operand l
ComparisonRest(tokens, st, l) ==
    IF current(tokens, l.p).type = "IN"
    THEN InResult(l.v, parseArray(tokens, st, l.p + 1), FALSE)
    ELSE IF current(tokens, l.p).type = "NOT" /\ peek(tokens, l.p, 1).type = "IN"
    THEN InResult(l.v, parseArray(tokens, st, l.p + 2), TRUE)
    ELSE IF current(tokens, l.p).type = "OPERATOR"
    THEN OperatorResult(current(tokens, l.p).value.s, l.v,
                        parsePrimary(tokens, st, l.p + 1))
    ELSE l

\* !value
Negate(r) == Ret(Bool(~Truthy(r.v)), r.p)

parseNot(tokens, st, pos) ==
    IF current(tokens, pos).type = "NOT"
    THEN Negate(parseNot(tokens, st, pos + 1))
    ELSE parseComparison(tokens, st, pos)

\* the while loop of parseAnd, l being left and the position after it
AndLoop(tokens, st, l) ==
    IF current(tokens, l.p).type = "AND"
    THEN AndNext(tokens, st, l.v, parseNot(tokens, st, l.p + 1))
    ELSE l

\* left = left && right
AndNext(tokens, st, left, r) ==
    AndLoop(tokens, st, Ret(IF Truthy(left) THEN r.v ELSE left, r.p))

parseAnd(tokens, st, pos) == AndLoop(tokens, st, parseNot(tokens, st, pos))

\* a loop of parseOr whose right operand is a not-expression only, so that
\* 'or' binds as tightly as 'and'
OrLoopTight(tokens, st, l) ==
    IF current(tokens, l.p).type = "OR"
    THEN OrNext(tokens, st, l.v, parseNot(tokens, st, l.p + 1))
    ELSE l

\* the while loop of parseOr, l being left and the position after it
OrLoop(tokens, st, l) ==
    IF current(tokens, l.p).type = "OR"
    THEN OrNext(tokens, st, l.v, parseAnd(tokens, st, l.p + 1))
    ELSE l

\* left = left || right
OrNext(tokens, st, left, r) ==
    OrLoop(tokens, st, Ret(IF Truthy(left) THEN left ELSE r.v, r.p))

parseOr(tokens, st, pos) == OrLoop(tokens, st, parseAnd(tokens, st, pos))

\* ConditionParser.parse
parse(tokens, st) == Truthy(parseOr(tokens, st, 1).v)

----------------------------------------------------------------------------
(* The rule tables: static data *)

\* the elements of a sequence
Range(xs) == {xs[i] : i \in 1..Len(xs)}

KV(key, value) == [key |-> key, value |-> value]

\* a rule that fires in every state
ImplicationUnconditional(id, condition, setValues, allowOverride, priority) ==
    [id |-> id, condition |-> "", setValues |-> setValues,
     allowOverride |-> allowOverride, priority |-> priority]

Implication(id, condition, setValues, allowOverride, priority) ==
    [id |-> id, condition |-> condition, setValues |-> setValues,
     allowOverride |-> allowOverride, priority |-> priority]

\* the built-in table; a rule without a priority has priority 0
IMPLICATIONS == <<
    Implication("corexy_awd_enables_awd", "printer.kinematics == 'corexy-awd'",
        <<KV("printer.awd_enabled", JsTrue)>>, FALSE, 0),
    Implication("hybrid_corexy_enables_awd", "printer.kinematics == 'hybrid_corexy'",
        <<KV("printer.awd_enabled", JsTrue)>>, FALSE, 0),
    Implication("non_awd_disables_awd",
        "printer.kinematics != 'corexy-awd' and printer.kinematics != 'hybrid_corexy'",
        <<KV("printer.awd_enabled", JsFalse)>>, FALSE, -1),
    Implication("tap_zero_offsets", "probe.probe_type == 'tap'",
        <<KV("probe.x_offset", Num(0)), KV("probe.y_offset", Num(0))>>, FALSE, 0),
    Implication("beacon_contact_homing",
        "probe.probe_type == 'beacon' and probe.homing_mode == 'contact'",
        <<KV("homing.homing_method", Str("beacon_contact"))>>, FALSE, 0),
    Implication("cartographer_touch_homing",
        "probe.probe_type == 'cartographer' and probe.homing_mode == 'touch'",
        <<KV("homing.homing_method", Str("cartographer_touch"))>>, FALSE, 0),
    Implication("bltouch_homing", "probe.probe_type == 'bltouch'",
        <<KV("homing.homing_method", Str("probe"))>>, FALSE, 0),
    Implication("tap_homing", "probe.probe_type == 'tap'",
        <<KV("homing.homing_method", Str("probe"))>>, FALSE, 0),
    Implication("z_motor_count_2_enables_z_tilt", "z_config.motor_count == 2",
        <<KV("leveling.type", Str("z_tilt"))>>, TRUE, 0),
    Implication("z_motor_count_3_enables_z_tilt", "z_config.motor_count == 3",
        <<KV("leveling.type", Str("z_tilt"))>>, TRUE, 0),
    Implication("z_motor_count_4_enables_qgl", "z_config.motor_count == 4",
        <<KV("leveling.type", Str("quad_gantry_level"))>>, TRUE, 0),
    Implication("toolboard_default_extruder_location", "mcu.toolboard.enabled == true",
        <<KV("extruder.motor_location", Str("toolboard")),
          KV("fans.part_cooling.location", Str("toolboard")),
          KV("fans.hotend.location", Str("toolboard"))>>, TRUE, -1),
    Implication("sensorless_x_uses_diag", "homing.x_endstop_type == 'sensorless'",
        <<KV("stepper_x.endstop_pin", Str("virtual_endstop"))>>, FALSE, 0),
    Implication("sensorless_y_uses_diag", "homing.y_endstop_type == 'sensorless'",
        <<KV("stepper_y.endstop_pin", Str("virtual_endstop"))>>, FALSE, 0),
    Implication("safe_z_home_center", "printer.bed_size_x and printer.bed_size_y",
        <<>>, TRUE, 0) >>

ConflictRule(id, message, condition, severity, category, relatedFields) ==
    [id |-> id, message |-> message, condition |-> condition,
     severity |-> severity, category |-> category, relatedFields |-> relatedFields]

\* the built-in table (the details and suggestion texts are left out)
CONFLICT_RULES == <<
    ConflictRule("qgl_requires_4_motors", "Quad Gantry Level requires exactly 4 Z motors",
        "leveling.type == 'quad_gantry_level' and z_config.motor_count != 4",
        "error", "leveling", <<"leveling.type", "z_config.motor_count">>),
    ConflictRule("z_tilt_requires_2_or_3_motors", "Z Tilt requires 2 or 3 Z motors",
        "leveling.type == 'z_tilt' and (z_config.motor_count < 2 or z_config.motor_count > 3)",
        "error", "leveling", <<"leveling.type", "z_config.motor_count">>),
    ConflictRule("sensorless_needs_stallguard_x",
        "Sensorless X homing requires a TMC driver with StallGuard",
        "homing.x_endstop_type == 'sensorless' and stepper_x.driver_type not in ['tmc2209', 'tmc2226', 'tmc2240', 'tmc5160', 'tmc2130']",
        "error", "homing", <<"homing.x_endstop_type", "stepper_x.driver_type">>),
    ConflictRule("sensorless_needs_stallguard_y",
        "Sensorless Y homing requires a TMC driver with StallGuard",
        "homing.y_endstop_type == 'sensorless' and stepper_y.driver_type not in ['tmc2209', 'tmc2226', 'tmc2240', 'tmc5160', 'tmc2130']",
        "error", "homing", <<"homing.y_endstop_type", "stepper_y.driver_type">>),
    ConflictRule("toolboard_extruder_needs_toolboard",
        "Extruder set to toolboard but toolboard is not enabled",
        "extruder.motor_location == 'toolboard' and mcu.toolboard.enabled != true",
        "error", "hardware", <<"extruder.motor_location", "mcu.toolboard.enabled">>),
    ConflictRule("toolboard_fan_needs_toolboard",
        "Fan set to toolboard but toolboard is not enabled",
        "(fans.part_cooling.location == 'toolboard' or fans.hotend.location == 'toolboard') and mcu.toolboard.enabled != true",
        "error", "hardware",
        <<"fans.part_cooling.location", "fans.hotend.location", "mcu.toolboard.enabled">>),
    ConflictRule("toolboard_probe_needs_toolboard",
        "Probe set to toolboard but toolboard is not enabled",
        "probe.location == 'toolboard' and mcu.toolboard.enabled != true",
        "error", "probing", <<"probe.location", "mcu.toolboard.enabled">>),
    ConflictRule("awd_needs_corexy", "AWD mode requires CoreXY-based kinematics",
        "printer.awd_enabled == true and printer.kinematics not in ['corexy', 'corexy-awd', 'hybrid_corexy']",
        "error", "motion", <<"printer.awd_enabled", "printer.kinematics">>),
    ConflictRule("beacon_needs_i2c_or_can", "Beacon probe requires I2C or CAN connection",
        "probe.probe_type == 'beacon' and probe.connection_type not in ['i2c', 'can']",
        "warning", "probing", <<"probe.probe_type", "probe.connection_type">>),
    ConflictRule("cartographer_needs_can", "Cartographer probe typically uses CAN connection",
        "probe.probe_type == 'cartographer' and probe.connection_type != 'can'",
        "warning", "probing", <<"probe.probe_type", "probe.connection_type">>),
    ConflictRule("high_bed_temp_warning", "Bed max temperature is set very high",
        "heater_bed.max_temp > 120",
        "warning", "heating", <<"heater_bed.max_temp">>),
    ConflictRule("high_hotend_temp_warning", "Hotend max temperature is set very high",
        "extruder.max_temp > 300",
        "warning", "heating", <<"extruder.max_temp">>),
    ConflictRule("high_xy_current_warning", "XY motor current is set high",
        "stepper_x.run_current > 1.2 or stepper_y.run_current > 1.2",
        "warning", "motion", <<"stepper_x.run_current", "stepper_y.run_current">>),
    ConflictRule("no_kinematics_selected", "No kinematics type selected",
        "not printer.kinematics",
        "error", "general", <<"printer.kinematics">>),
    ConflictRule("no_mainboard_selected", "No mainboard selected",
        "not mcu.main.board_type",
        "error", "hardware", <<"mcu.main.board_type">>),
    ConflictRule("mesh_exceeds_bed", "Bed mesh area may exceed printable area",
        "bed_mesh.mesh_max_x > printer.bed_size_x or bed_mesh.mesh_max_y > printer.bed_size_y",
        "warning", "probing",
        <<"bed_mesh.mesh_max_x", "bed_mesh.mesh_max_y", "printer.bed_size_x", "printer.bed_size_y">>) >>

Option(value, impliedValues, clearValues, condition) ==
    [value |-> value, impliedValues |-> impliedValues,
     clearValues |-> clearValues, condition |-> condition]

\* an option with no side effects and no availability condition
Plain(value) == Option(value, <<>>, <<>>, "")

ExclusiveGroup(id, name, stateKey, required, options) ==
    [id |-> id, name |-> name, stateKey |-> stateKey, required |-> required,
     options |-> options]

TmcDrivers == "['tmc2209', 'tmc2226', 'tmc2240', 'tmc5160', 'tmc2130']"

\* the built-in table (labels and descriptions are left out)
EXCLUSIVE_GROUPS == <<
    ExclusiveGroup("kinematics", "Kinematics Type", "printer.kinematics", TRUE, <<
        Plain("cartesian"),
        Plain("corexy"),
        Option("corexy-awd", <<KV("printer.awd_enabled", JsTrue)>>, <<>>, ""),
        Option("hybrid_corexy", <<KV("printer.awd_enabled", JsTrue)>>, <<>>, ""),
        Plain("corexz"),
        Plain("delta") >>),
    ExclusiveGroup("probe_type", "Probe Type", "probe.probe_type", FALSE, <<
        Option("none", <<>>, <<"probe.x_offset", "probe.y_offset", "probe.z_offset">>, ""),
        Option("bltouch", <<KV("probe.needs_deploy", JsTrue)>>, <<>>, ""),
        Plain("inductive"),
        Option("tap", <<KV("probe.x_offset", Num(0)), KV("probe.y_offset", Num(0))>>, <<>>, ""),
        Plain("beacon"),
        Plain("cartographer"),
        Option("klicky", <<KV("probe.needs_deploy", JsTrue)>>, <<>>, "") >>),
    ExclusiveGroup("leveling_type", "Leveling Type", "leveling.type", FALSE, <<
        Plain("none"),
        Option("bed_mesh", <<>>, <<>>, "probe.probe_type != \"none\""),
        Option("z_tilt", <<>>, <<>>, "z_config.motor_count >= 2 and z_config.motor_count <= 3"),
        Option("quad_gantry_level", <<>>, <<>>, "z_config.motor_count == 4") >>),
    ExclusiveGroup("x_endstop_type", "X Endstop Type", "homing.x_endstop_type", FALSE, <<
        Plain("physical"),
        Option("sensorless", <<>>, <<>>, "stepper_x.driver_type in " \o TmcDrivers) >>),
    ExclusiveGroup("y_endstop_type", "Y Endstop Type", "homing.y_endstop_type", FALSE, <<
        Plain("physical"),
        Option("sensorless", <<>>, <<>>, "stepper_y.driver_type in " \o TmcDrivers) >>),
    ExclusiveGroup("z_endstop_type", "Z Endstop Type", "homing.z_endstop_type", FALSE, <<
        Plain("physical"),
        Option("probe", <<>>, <<>>, "probe.probe_type != 'none'") >>),
    ExclusiveGroup("tooling_type", "Tooling Configuration", "tooling.type", FALSE, <<
        Plain("single"), Plain("multi_extruder"), Plain("mmu"), Plain("toolchanger") >>),
    ExclusiveGroup("mcu_connection", "MCU Connection", "mcu.main.connection_type", FALSE, <<
        Plain("usb"), Plain("can") >>) >>

COPYABLE_STEPPER_FIELDS == <<"driver_type", "microsteps", "rotation_distance",
    "run_current", "hold_current", "stealthchop_threshold", "interpolate">>

InheritanceRelation(child, parent, fields, condition) ==
    [child |-> child, parent |-> parent, fields |-> fields, condition |-> condition]

INHERITANCE_RELATIONS == <<
    InheritanceRelation("stepper_y", "stepper_x", COPYABLE_STEPPER_FIELDS, ""),
    InheritanceRelation("stepper_x1", "stepper_x", COPYABLE_STEPPER_FIELDS, "printer.awd_enabled"),
    InheritanceRelation("stepper_y1", "stepper_y", COPYABLE_STEPPER_FIELDS, "printer.awd_enabled"),
    InheritanceRelation("stepper_z1", "stepper_z", COPYABLE_STEPPER_FIELDS, "z_config.motor_count >= 2"),
    InheritanceRelation("stepper_z2", "stepper_z", COPYABLE_STEPPER_FIELDS, "z_config.motor_count >= 3"),
    InheritanceRelation("stepper_z3", "stepper_z", COPYABLE_STEPPER_FIELDS, "z_config.motor_count >= 4") >>

\* min and max are Undefined when the definition has none; hasValidValues
\* tells whether validValues is given; validate names the custom check
FieldDefinition(key, label, required, requiredWhen, min, max, hasValidValues, validValues, validate) ==
    [key |-> key, label |-> label, required |-> required, requiredWhen |-> requiredWhen,
     min |-> min, max |-> max, hasValidValues |-> hasValidValues,
     validValues |-> validValues, validate |-> validate]

FIELD_DEFINITIONS == <<
    FieldDefinition("printer.kinematics", "Kinematics Type", TRUE, "",
        Undefined, Undefined, TRUE, <<"cartesian", "corexy", "corexy-awd", "hybrid_corexy", "corexz", "delta">>, ""),
    FieldDefinition("mcu.main.board_type", "Mainboard Type", TRUE, "",
        Undefined, Undefined, FALSE, <<>>, ""),
    FieldDefinition("stepper_x.motor_port", "Stepper X Motor Port", FALSE, "printer.kinematics",
        Undefined, Undefined, FALSE, <<>>, ""),
    FieldDefinition("stepper_x.step_pin", "Stepper X Step Pin", FALSE, "stepper_x.motor_port",
        Undefined, Undefined, FALSE, <<>>, ""),
    FieldDefinition("stepper_x.dir_pin", "Stepper X Direction Pin", FALSE, "stepper_x.motor_port",
        Undefined, Undefined, FALSE, <<>>, ""),
    FieldDefinition("stepper_x.enable_pin", "Stepper X Enable Pin", FALSE, "stepper_x.motor_port",
        Undefined, Undefined, FALSE, <<>>, ""),
    FieldDefinition("stepper_x.rotation_distance", "Stepper X Rotation Distance", FALSE, "stepper_x.motor_port",
        Tenths(1), Tenths(5000), FALSE, <<>>, ""),
    FieldDefinition("stepper_x.microsteps", "Stepper X Microsteps", FALSE, "stepper_x.motor_port",
        Undefined, Undefined, TRUE, <<"16", "32", "64", "128", "256">>, "microsteps"),
    FieldDefinition("stepper_x.run_current", "Stepper X Run Current", FALSE, "",
        Tenths(1), Tenths(30), FALSE, <<>>, ""),
    FieldDefinition("stepper_y.motor_port", "Stepper Y Motor Port", FALSE, "printer.kinematics",
        Undefined, Undefined, FALSE, <<>>, ""),
    FieldDefinition("stepper_y.step_pin", "Stepper Y Step Pin", FALSE, "stepper_y.motor_port",
        Undefined, Undefined, FALSE, <<>>, ""),
    FieldDefinition("stepper_y.dir_pin", "Stepper Y Direction Pin", FALSE, "stepper_y.motor_port",
        Undefined, Undefined, FALSE, <<>>, ""),
    FieldDefinition("stepper_y.enable_pin", "Stepper Y Enable Pin", FALSE, "stepper_y.motor_port",
        Undefined, Undefined, FALSE, <<>>, ""),
    FieldDefinition("stepper_y.rotation_distance", "Stepper Y Rotation Distance", FALSE, "stepper_y.motor_port",
        Tenths(1), Tenths(5000), FALSE, <<>>, ""),
    FieldDefinition("stepper_y.microsteps", "Stepper Y Microsteps", FALSE, "stepper_y.motor_port",
        Undefined, Undefined, FALSE, <<>>, ""),
    FieldDefinition("stepper_z.motor_port", "Stepper Z Motor Port", FALSE, "printer.kinematics",
        Undefined, Undefined, FALSE, <<>>, ""),
    FieldDefinition("stepper_z.rotation_distance", "Stepper Z Rotation Distance", FALSE, "stepper_z.motor_port",
        Tenths(1), Tenths(1000), FALSE, <<>>, ""),
    FieldDefinition("stepper_x1.motor_port", "Stepper X1 Motor Port", FALSE, "printer.awd_enabled",
        Undefined, Undefined, FALSE, <<>>, ""),
    FieldDefinition("stepper_y1.motor_port", "Stepper Y1 Motor Port", FALSE, "printer.awd_enabled",
        Undefined, Undefined, FALSE, <<>>, ""),
    FieldDefinition("stepper_z1.motor_port", "Stepper Z1 Motor Port", FALSE, "z_config.motor_count >= 2",
        Undefined, Undefined, FALSE, <<>>, ""),
    FieldDefinition("stepper_z2.motor_port", "Stepper Z2 Motor Port", FALSE, "z_config.motor_count >= 3",
        Undefined, Undefined, FALSE, <<>>, ""),
    FieldDefinition("stepper_z3.motor_port", "Stepper Z3 Motor Port", FALSE, "z_config.motor_count >= 4",
        Undefined, Undefined, FALSE, <<>>, ""),
    FieldDefinition("extruder.motor_port", "Extruder Motor Port", FALSE, "printer.kinematics",
        Undefined, Undefined, FALSE, <<>>, ""),
    FieldDefinition("extruder.rotation_distance", "Extruder Rotation Distance", FALSE, "extruder.motor_port",
        Tenths(10), Tenths(1000), FALSE, <<>>, ""),
    FieldDefinition("heater_bed.heater_port", "Heater Bed Port", FALSE, "",
        Undefined, Undefined, FALSE, <<>>, ""),
    FieldDefinition("heater_bed.thermistor_port", "Heater Bed Thermistor Port", FALSE, "heater_bed.heater_port",
        Undefined, Undefined, FALSE, <<>>, ""),
    FieldDefinition("heater_bed.sensor_type", "Heater Bed Sensor Type", FALSE, "heater_bed.heater_port",
        Undefined, Undefined, FALSE, <<>>, ""),
    FieldDefinition("heater_bed.max_temp", "Heater Bed Max Temperature", FALSE, "",
        Tenths(500), Tenths(1500), FALSE, <<>>, ""),
    FieldDefinition("extruder.heater_port", "Hotend Heater Port", FALSE, "extruder.motor_port",
        Undefined, Undefined, FALSE, <<>>, ""),
    FieldDefinition("extruder.thermistor_port", "Hotend Thermistor Port", FALSE, "extruder.heater_port",
        Undefined, Undefined, FALSE, <<>>, ""),
    FieldDefinition("extruder.sensor_type", "Hotend Sensor Type", FALSE, "extruder.heater_port",
        Undefined, Undefined, FALSE, <<>>, ""),
    FieldDefinition("extruder.max_temp", "Hotend Max Temperature", FALSE, "",
        Tenths(1500), Tenths(5000), FALSE, <<>>, ""),
    FieldDefinition("mcu.toolboard.board_type", "Toolboard Type", FALSE, "mcu.toolboard.enabled",
        Undefined, Undefined, FALSE, <<>>, ""),
    FieldDefinition("mcu.toolboard.canbus_uuid", "Toolboard CAN UUID", FALSE, "mcu.toolboard.enabled and mcu.toolboard.connection_type == 'can'",
        Undefined, Undefined, FALSE, <<>>, "") >>

----------------------------------------------------------------------------
(* Condition engine: evaluateCondition *)

\* every condition string of the rule tables
TableConditions ==
    {IMPLICATIONS[i].condition : i \in 1..Len(IMPLICATIONS)}
    \cup {CONFLICT_RULES[i].condition : i \in 1..Len(CONFLICT_RULES)}
    \cup {INHERITANCE_RELATIONS[i].condition : i \in 1..Len(INHERITANCE_RELATIONS)}
    \cup {FIELD_DEFINITIONS[i].requiredWhen : i \in 1..Len(FIELD_DEFINITIONS)}
    \cup UNION {{EXCLUSIVE_GROUPS[i].options[j].condition :
                    j \in 1..Len(EXCLUSIVE_GROUPS[i].options)} : i \in 1..Len(EXCLUSIVE_GROUPS)}

\* tokenize on the table conditions, computed once
TableTokens == [condition \in TableConditions |-> tokenize(condition)]

\* tokenize(condition), looked up when it has been computed before
Tokens(condition) ==
    IF condition \in TableConditions THEN TableTokens[condition] ELSE tokenize(condition)

\* evaluateCondition; condition is "" when no condition is given.  The catch
\* branch is never taken: tokenize and the parser raise no exception.
evaluateCondition(condition, st) ==
    IF condition = "" \/ trim(condition) = "" THEN TRUE
    ELSE parse(Tokens(condition), st)

\* getConditionDependencies: the state keys a condition reads
getConditionDependencies(condition) ==
    IF condition = "" THEN {}
    ELSE With(tokenize(condition), LAMBDA tokens :
             {tokens[i].value.s : i \in {j \in 1..Len(tokens) : tokens[j].type = "IDENTIFIER"}})

----------------------------------------------------------------------------
(* Wizard store: the only writer of the state *)

EmptyState == [k \in {} |-> Undefined]

\* isEmptyValue: undefined, null, '' and [] are empty; 0 and false are kept
isEmptyValue(value) ==
    \/ value.t = "undef"
    \/ value.t = "null"
    \/ value.t = "str" /\ value.s = ""
    \/ value.t = "arr" /\ value.a = <<>>

\* the state handed on as it is
cleanStateKeepsAll(st) == st

\* cleanState: the state without its empty values
cleanState(st) ==
    [k \in {x \in DOMAIN st : ~isEmptyValue(st[x])} |-> st[k]]

\* a merge that writes the truthy values only; 0 and false are dropped
setFieldsTruthyOnly(st, fields) ==
    LET sets == {k \in DOMAIN fields : Truthy(fields[k])}
    IN [k \in DOMAIN st \cup sets |-> IF k \in sets THEN fields[k] ELSE st[k]]

\* the state setFields(fields) leaves: an empty value deletes its key
setFields(st, fields) ==
    LET dels == {k \in DOMAIN fields : isEmptyValue(fields[k])}
        sets == DOMAIN fields \ dels
    IN [k \in (DOMAIN st \ dels) \cup sets |->
           IF k \in sets THEN fields[k] ELSE st[k]]

\* the state setField(key, value) leaves
setField(st, key, value) ==
    IF isEmptyValue(value)
    THEN [k \in DOMAIN st \ {key} |-> st[k]]
    ELSE [k \in DOMAIN st \cup {key} |-> IF k = key THEN value ELSE st[k]]

\* the state loadState(newState) leaves
loadState(newState) == cleanState(newState)

\* the state deleteField(key) leaves
deleteField(st, key) == [k \in DOMAIN st \ {key} |-> st[k]]

\* The store object itself is a record [state, history, historyIndex]:
\* history is the sequence of snapshots and historyIndex the 0-based index
\* of the current one, -1 when there is none.

\* "Keep only last 20 states"
HistoryLimit == 20

\* the store as created
InitialStore == [state |-> EmptyState, history |-> <<>>, historyIndex |-> -1]

\* a history that is never cut at the front
pushHistoryUnlimited(store) ==
    [store EXCEPT !.history = Append(SubSeq(store.history, 1, store.historyIndex + 1),
                                     store.state),
                  !.historyIndex = store.historyIndex + 1]

\* pushHistory: the snapshots after historyIndex are dropped, the current
\* state is appended and the oldest snapshot is dropped over the limit
pushHistory(store) ==
    LET newHistory == Append(SubSeq(store.history, 1, store.historyIndex + 1),
                             store.state)
        kept == IF Len(newHistory) > HistoryLimit THEN Tail(newHistory) ELSE newHistory
    IN [store EXCEPT !.history = kept, !.historyIndex = Len(kept) - 1]

\* pushHistory() followed by set({ state: newState })
Mutated(store, newState) == [pushHistory(store) EXCEPT !.state = newState]

\* resetState: back to the initial state
resetState(store) == Mutated(store, EmptyState)

\* undo: to the snapshot before historyIndex, if there is one
undo(store) ==
    IF store.historyIndex > 0
    THEN [store EXCEPT !.state = store.history[store.historyIndex],
                       !.historyIndex = store.historyIndex - 1]
    ELSE store

\* redo: to the snapshot after historyIndex, if there is one
redo(store) ==
    IF store.historyIndex < Len(store.history) - 1
    THEN [store EXCEPT !.state = store.history[store.historyIndex + 2],
                       !.historyIndex = store.historyIndex + 1]
    ELSE store

----------------------------------------------------------------------------
(* Implications *)

\* insert rule x into the sorted sequence after every rule of priority <= its
RECURSIVE InsertByPriority(_, _)
InsertByPriority(sorted, x) ==
    IF sorted = <<>> THEN <<x>>
    ELSE IF Head(sorted).priority <= x.priority
         THEN <<Head(sorted)>> \o InsertByPriority(Tail(sorted), x)
         ELSE <<x>> \o sorted

\* [...table].sort((a, b) => a.priority - b.priority): ascending and stable
RECURSIVE SortByPriority(_)
SortByPriority(table) ==
    IF table = <<>> THEN <<>>
    ELSE InsertByPriority(SortByPriority(SubSeq(table, 1, Len(table) - 1)),
                          table[Len(table)])

ImplicationResult(changed, applied, skipped) ==
    [changedValues |-> changed, appliedImplications |-> applied,
     skippedImplications |-> skipped]

\* f with key set to value
Put(f, key, value) ==
    [k \in DOMAIN f \cup {key} |-> IF k = key THEN value ELSE f[k]]

\* the inner loop with every key in userOverrides protected, whether or not
\* the rule has allowOverride
RECURSIVE ApplySetValuesAlwaysProtect(_, _, _, _, _)
ApplySetValuesAlwaysProtect(implication, i, st, overrides, res) ==
    IF i > Len(implication.setValues) THEN res
    ELSE LET key == implication.setValues[i].key
             value == implication.setValues[i].value
         IN IF key \in overrides
            THEN ApplySetValuesAlwaysProtect(implication, i + 1, st, overrides,
                     ImplicationResult(res.changedValues, res.appliedImplications,
                         Append(res.skippedImplications, implication.id \o ":" \o key)))
            ELSE IF StrictEq(Get(st, key), value)
            THEN ApplySetValuesAlwaysProtect(implication, i + 1, st, overrides, res)
            ELSE ApplySetValuesAlwaysProtect(implication, i + 1, st, overrides,
                     ImplicationResult(Put(res.changedValues, key, value),
                         Append(res.appliedImplications, implication.id),
                         res.skippedImplications))

\* the inner loop without the test that skips a value the state already has
RECURSIVE ApplySetValuesNoSkip(_, _, _, _, _)
ApplySetValuesNoSkip(implication, i, st, overrides, res) ==
    IF i > Len(implication.setValues) THEN res
    ELSE IF implication.allowOverride /\ implication.setValues[i].key \in overrides
    THEN ApplySetValuesNoSkip(implication, i + 1, st, overrides,
             ImplicationResult(res.changedValues, res.appliedImplications,
                 Append(res.skippedImplications,
                        implication.id \o ":" \o implication.setValues[i].key)))
    ELSE ApplySetValuesNoSkip(implication, i + 1, st, overrides,
             ImplicationResult(
                 Put(res.changedValues, implication.setValues[i].key,
                     implication.setValues[i].value),
                 Append(res.appliedImplications, implication.id),
                 res.skippedImplications))

\* the inner loop of applyImplications: entry i.. of one rule's setValues
RECURSIVE ApplySetValues(_, _, _, _, _)
ApplySetValues(implication, i, st, overrides, res) ==
    IF i > Len(implication.setValues) THEN res
    ELSE LET key == implication.setValues[i].key
             value == implication.setValues[i].value
         IN IF implication.allowOverride /\ key \in overrides
            THEN ApplySetValues(implication, i + 1, st, overrides,
                     ImplicationResult(res.changedValues, res.appliedImplications,
                         Append(res.skippedImplications, implication.id \o ":" \o key)))
            ELSE IF StrictEq(Get(st, key), value)
            THEN ApplySetValues(implication, i + 1, st, overrides, res)
            ELSE ApplySetValues(implication, i + 1, st, overrides,
                     ImplicationResult(Put(res.changedValues, key, value),
                         Append(res.appliedImplications, implication.id),
                         res.skippedImplications))

\* an outer loop that applies every rule, whether or not its condition holds
RECURSIVE ApplyRulesUnconditional(_, _, _, _)
ApplyRulesUnconditional(sorted, st, overrides, res) ==
    IF sorted = <<>> THEN res
    ELSE ApplyRulesUnconditional(Tail(sorted), st, overrides,
             ApplySetValues(Head(sorted), 1, st, overrides, res))

\* an outer loop that evaluates each condition on the state with the
\* changes made so far merged into it
RECURSIVE ApplyRulesChained(_, _, _, _)
ApplyRulesChained(sorted, st, overrides, res) ==
    IF sorted = <<>> THEN res
    ELSE IF ~evaluateCondition(Head(sorted).condition, setFields(st, res.changedValues))
         THEN ApplyRulesChained(Tail(sorted), st, overrides, res)
         ELSE ApplyRulesChained(Tail(sorted), st, overrides,
                  ApplySetValues(Head(sorted), 1, st, overrides, res))

\* the outer loop of applyImplications over the sorted rules
RECURSIVE ApplyRules(_, _, _, _)
ApplyRules(sorted, st, overrides, res) ==
    IF sorted = <<>> THEN res
    ELSE IF ~evaluateCondition(Head(sorted).condition, st)
         THEN ApplyRules(Tail(sorted), st, overrides, res)
         ELSE ApplyRules(Tail(sorted), st, overrides,
                  ApplySetValues(Head(sorted), 1, st, overrides, res))

\* applyImplications over the table `table`
applyImplications(table, st, overrides) ==
    ApplyRules(SortByPriority(table), st, overrides,
               ImplicationResult(EmptyState, <<>>, <<>>))

----------------------------------------------------------------------------
(* Conflicts *)

\* the context of a conflict: every related field with its current value
ConflictContext(rule, st) ==
    [field \in Range(rule.relatedFields) |-> Get(st, field)]

\* a loop that stops at the first rule that fires
RECURSIVE DetectFirstOnly(_, _, _, _)
DetectFirstOnly(table, st, i, conflicts) ==
    IF i > Len(table) THEN conflicts
    ELSE IF evaluateCondition(table[i].condition, st)
         THEN Append(conflicts, [rule |-> table[i], context |-> ConflictContext(table[i], st)])
         ELSE DetectFirstOnly(table, st, i + 1, conflicts)

\* the loop of detectConflicts, from rule i with the conflicts so far
RECURSIVE DetectFrom(_, _, _, _)
DetectFrom(table, st, i, conflicts) ==
    IF i > Len(table) THEN conflicts
    ELSE IF evaluateCondition(table[i].condition, st)
         THEN DetectFrom(table, st, i + 1,
                  Append(conflicts, [rule |-> table[i], context |-> ConflictContext(table[i], st)]))
         ELSE DetectFrom(table, st, i + 1, conflicts)

detectConflicts(st) == DetectFrom(CONFLICT_RULES, st, 1, <<>>)

----------------------------------------------------------------------------
(* Exclusive groups *)

\* group.options.find(o => o.value === optionValue): index of the first
\* option with that value, 0 when there is none
RECURSIVE FindOption(_, _, _)
FindOption(options, optionValue, i) ==
    IF i > Len(options) THEN 0
    ELSE IF options[i].value = optionValue THEN i
    ELSE FindOption(options, optionValue, i + 1)

\* Object.assign(changes, impliedValues)
RECURSIVE AssignAll(_, _, _)
AssignAll(changes, kvs, i) ==
    IF i > Len(kvs) THEN changes
    ELSE AssignAll(Put(changes, kvs[i].key, kvs[i].value), kvs, i + 1)

\* the implied keys of the other options left as they are
ClearOthersKeepsAll(changes, kvs, i) == changes

\* mark the keys kvs[i..] that are not in changes yet as deleted
RECURSIVE ClearOthers(_, _, _)
ClearOthers(changes, kvs, i) ==
    IF i > Len(kvs) THEN changes
    ELSE ClearOthers(IF kvs[i].key \in DOMAIN changes THEN changes
                     ELSE Put(changes, kvs[i].key, Undefined), kvs, i + 1)

\* the loop of selectOption over the other options of the group
RECURSIVE ClearOtherOptions(_, _, _, _)
ClearOtherOptions(changes, options, optionValue, i) ==
    IF i > Len(options) THEN changes
    ELSE ClearOtherOptions(
             IF options[i].value # optionValue
             THEN ClearOthers(changes, options[i].impliedValues, 1)
             ELSE changes,
             options, optionValue, i + 1)

\* clearValues applied only to the keys that are not in changes yet
RECURSIVE ClearAllKeepsImplied(_, _, _)
ClearAllKeepsImplied(changes, keys, i) ==
    IF i > Len(keys) THEN changes
    ELSE ClearAllKeepsImplied(IF keys[i] \in DOMAIN changes THEN changes
                              ELSE Put(changes, keys[i], Undefined), keys, i + 1)

\* changes[key] = undefined for every key of clearValues
RECURSIVE ClearAll(_, _, _)
ClearAll(changes, keys, i) ==
    IF i > Len(keys) THEN changes
    ELSE ClearAll(Put(changes, keys[i], Undefined), keys, i + 1)

\* selectOption without the early return for an option that is not found:
\* the implied keys of every option are marked as deleted
selectOptionNoGuard(grp, optionValue) ==
    LET i == FindOption(grp.options, optionValue, 1)
        c0 == Put(EmptyState, grp.stateKey,
                  IF i = 0 THEN Undefined ELSE Str(optionValue))
        c1 == IF i = 0 THEN c0 ELSE AssignAll(c0, grp.options[i].impliedValues, 1)
        c2 == ClearOtherOptions(c1, grp.options, optionValue, 1)
    IN IF i = 0 THEN c2 ELSE ClearAll(c2, grp.options[i].clearValues, 1)

\* selectOption: the state changes of choosing optionValue in the group;
\* a key mapped to Undefined is to be deleted
selectOption(grp, optionValue) ==
    LET i == FindOption(grp.options, optionValue, 1) IN
    IF i = 0 THEN Put(EmptyState, grp.stateKey, Undefined)
    ELSE LET option == grp.options[i]
             c0 == Put(EmptyState, grp.stateKey, Str(optionValue))
             c1 == AssignAll(c0, option.impliedValues, 1)
             c2 == ClearOtherOptions(c1, grp.options, optionValue, 1)
         IN ClearAll(c2, option.clearValues, 1)

\* every option of the group, whatever its condition
getAvailableOptionsAll(grp, st) == grp.options

\* getAvailableOptions: the options whose condition holds
getAvailableOptions(grp, st) ==
    SelectSeq(grp.options, LAMBDA o : o.condition = "" \/ evaluateCondition(o.condition, st))

----------------------------------------------------------------------------
(* Stepper inheritance *)

\* getInheritanceRelation: index of the first relation of the child, 0 if none
RECURSIVE FindRelation(_, _)
FindRelation(stepperName, i) ==
    IF i > Len(INHERITANCE_RELATIONS) THEN 0
    ELSE IF INHERITANCE_RELATIONS[i].child = stepperName THEN i
    ELSE FindRelation(stepperName, i + 1)

getInheritanceRelation(stepperName) == FindRelation(stepperName, 1)

\* shouldInherit: a relation exists and its condition, if any, holds
shouldInherit(stepperName, st) ==
    LET i == getInheritanceRelation(stepperName) IN
    /\ i # 0
    /\ \/ INHERITANCE_RELATIONS[i].condition = ""
       \/ evaluateCondition(INHERITANCE_RELATIONS[i].condition, st)

\* the loop with the parent's value copied over a value the child has
RECURSIVE InheritFieldsOverwrite(_, _, _, _, _)
InheritFieldsOverwrite(relation, stepperName, st, i, changes) ==
    IF i > Len(relation.fields) THEN changes
    ELSE LET childKey == stepperName \o "." \o relation.fields[i]
             parentValue == Get(st, relation.parent \o "." \o relation.fields[i])
         IN InheritFieldsOverwrite(relation, stepperName, st, i + 1,
                IF parentValue.t # "undef"
                THEN Put(changes, childKey, parentValue)
                ELSE changes)

\* the loop of applyInheritance over the fields of the relation
RECURSIVE InheritFields(_, _, _, _, _)
InheritFields(relation, stepperName, st, i, changes) ==
    IF i > Len(relation.fields) THEN changes
    ELSE LET childKey == stepperName \o "." \o relation.fields[i]
             parentKey == relation.parent \o "." \o relation.fields[i]
             childValue == Get(st, childKey)
             parentValue == Get(st, parentKey)
         IN InheritFields(relation, stepperName, st, i + 1,
                IF childValue.t = "undef" /\ parentValue.t # "undef"
                THEN Put(changes, childKey, parentValue)
                ELSE changes)

\* applyInheritance: parent values for the fields the child has not set
applyInheritance(stepperName, st) ==
    IF ~shouldInherit(stepperName, st) THEN EmptyState
    ELSE InheritFields(INHERITANCE_RELATIONS[getInheritanceRelation(stepperName)],
                       stepperName, st, 1, EmptyState)

\* the loop of getInheritedValues / copyStepperSettings: copy from.<field>
\* to to.<field> for every field that is set and not skipped
RECURSIVE CopyFields(_, _, _, _, _, _, _)
CopyFields(fields, from, to, st, fieldsToSkip, i, copied) ==
    IF i > Len(fields) THEN copied
    ELSE LET fromValue == Get(st, from \o "." \o fields[i])
         IN CopyFields(fields, from, to, st, fieldsToSkip, i + 1,
                IF fields[i] \notin fieldsToSkip /\ fromValue.t # "undef"
                THEN Put(copied, to \o "." \o fields[i], fromValue)
                ELSE copied)

getInheritedValues(stepperName, st) ==
    IF ~shouldInherit(stepperName, st) THEN EmptyState
    ELSE LET relation == INHERITANCE_RELATIONS[getInheritanceRelation(stepperName)]
         IN CopyFields(relation.fields, relation.parent, stepperName, st, {}, 1, EmptyState)

copyStepperSettings(fromStepper, toStepper, st, fieldsToSkip) ==
    CopyFields(COPYABLE_STEPPER_FIELDS, fromStepper, toStepper, st, fieldsToSkip, 1, EmptyState)

hasCustomValues(stepperName, st) ==
    IF ~shouldInherit(stepperName, st) THEN TRUE
    ELSE LET relation == INHERITANCE_RELATIONS[getInheritanceRelation(stepperName)]
         IN \E i \in 1..Len(relation.fields) :
                LET childValue == Get(st, stepperName \o "." \o relation.fields[i])
                    parentValue == Get(st, relation.parent \o "." \o relation.fields[i])
                IN childValue.t # "undef" /\ ~StrictEq(childValue, parentValue)

----------------------------------------------------------------------------
(* Validator *)

\* isEmpty of the validator: undefined or ''
isEmpty(value) == value.t = "undef" \/ (value.t = "str" /\ value.s = "")

\* String.prototype.indexOf (1-based): position of the first occurrence of pat
\* in str, 0 if none
Find(str, pat) == Least({i \in 1..Len(str) : StartsWithAt(str, pat, i)})

\* String.prototype.split(sep) for a non-empty separator
RECURSIVE split(_, _)
split(str, sep) ==
    With(Find(str, sep), LAMBDA i :
        IF i = 0 THEN <<str>>
        ELSE <<SubSeq(str, 1, i - 1)>> \o split(SubSeq(str, i + Len(sep), Len(str)), sep))

\* true when str[i..] is \s*\d+ up to the end of the string
SpacesDigitsToEnd(str, i) ==
    With(SkipWhile(str, i, "space"), LAMBDA d :
    With(SkipWhile(str, d, "digit"), LAMBDA e :
        e > d /\ e = Len(str) + 1))

\* condition.match(/^(.+?)\s*>=\s*(\d+)$/): the position of the >= that the
\* expression matches, 0 when it does not match
geMatch(condition) ==
    Least({p \in 2..Len(condition) :
              StartsWithAt(condition, ">=", p) /\ SpacesDigitsToEnd(condition, p + 2)})

\* condition.match(/^(.+?)\s*==\s*['"]?(.+?)['"]?$/): the position of the ==
\* the expression matches, 0 when it does not match; the lazy field group
\* stops before the first == that leaves at least one character after it
eqMatch(condition) ==
    Least({p \in 2..Len(condition) :
              StartsWithAt(condition, "==", p) /\ Len(condition) >= p + 2})

IsQuote(c) == c = "'" \/ c = "\""

\* the text the value group (.+?) of the == expression captures in rest,
\* the non-empty text after the ==
eqValue(rest) ==
    With(TrimLeft(rest), LAMBDA w :
        IF w = "" THEN Ch(rest, Len(rest))
        ELSE With(IF IsQuote(Ch(w, 1)) /\ Len(w) > 1 THEN Tail(w) ELSE w, LAMBDA q :
                 IF Len(q) >= 2 /\ IsQuote(Ch(q, Len(q)))
                 THEN SubSeq(q, 1, Len(q) - 1)
                 ELSE q))

\* evaluateSimpleCondition: the validator's own reading of requiredWhen
RECURSIVE evaluateSimpleCondition(_, _)
evaluateSimpleCondition(condition, st) ==
    IF condition = "" THEN TRUE
    ELSE IF geMatch(condition) # 0 THEN
        With(geMatch(condition), LAMBDA p :
        With(ToNumber(ToPrimitive(Get(st, trim(SubSeq(condition, 1, p - 1))))), LAMBDA number :
            /\ ~number.nan
            /\ number.n >= 10 * DigitsVal(condition, SkipWhile(condition, p + 2, "space"),
                                          Len(condition) + 1, 0)))
    ELSE IF eqMatch(condition) # 0 THEN
        With(eqMatch(condition), LAMBDA p :
            StrictEq(Get(st, trim(SubSeq(condition, 1, p - 1))),
                     Str(trim(eqValue(SubSeq(condition, p + 2, Len(condition)))))))
    ELSE IF Find(condition, " and ") # 0 THEN
        With(split(condition, " and "), LAMBDA parts :
            \A i \in 1..Len(parts) : evaluateSimpleCondition(trim(parts[i]), st))
    ELSE Truthy(Get(st, trim(condition)))

FieldValidation(field, valid, message, severity) ==
    [field |-> field, valid |-> valid, message |-> message, severity |-> severity]

\* validValues.join(', ')
RECURSIVE JoinText(_, _)
JoinText(xs, sep) ==
    IF xs = <<>> THEN ""
    ELSE IF Len(xs) = 1 THEN xs[1]
    ELSE xs[1] \o sep \o JoinText(Tail(xs), sep)

\* the custom validate function of a definition: the error text, "" for none
CustomValidate(def, value) ==
    IF def.validate = "microsteps"
    THEN With(ToNumber(ToPrimitive(value)), LAMBDA number :
             IF number.nan \/ number.n \notin {160, 320, 640, 1280, 2560}
             THEN "Microsteps must be 16, 32, 64, 128, or 256"
             ELSE "")
    ELSE ""

\* the checks of validateField on a value that is present
ValidatePresent(def, value) ==
    IF def.min.t # "undef" /\ value.t = "num" /\ value.n < def.min.n
    THEN <<FieldValidation(def.key, FALSE,
               def.label \o " must be at least " \o NumToStr(def.min.n), "error")>>
    ELSE IF def.max.t # "undef" /\ value.t = "num" /\ value.n > def.max.n
    THEN <<FieldValidation(def.key, FALSE,
               def.label \o " must be at most " \o NumToStr(def.max.n), "error")>>
    ELSE IF def.hasValidValues /\ ToStr(value) \notin Range(def.validValues)
    THEN <<FieldValidation(def.key, FALSE,
               def.label \o " must be one of: " \o JoinText(def.validValues, ", "), "error")>>
    ELSE IF CustomValidate(def, value) # ""
    THEN <<FieldValidation(def.key, FALSE, CustomValidate(def, value), "error")>>
    ELSE <<>>

\* isRequired of validateField
IsRequired(def, st) ==
    def.required \/ (def.requiredWhen # "" /\ evaluateSimpleCondition(def.requiredWhen, st))

\* validateField: <<>> for null, else the one FieldValidation
validateField(def, st) ==
    IF IsRequired(def, st) /\ isEmpty(Get(st, def.key))
    THEN <<FieldValidation(def.key, FALSE, def.label \o " is required", "error")>>
    ELSE IF isEmpty(Get(st, def.key)) THEN <<>>
    ELSE ValidatePresent(def, Get(st, def.key))

\* validateExclusiveGroups: one error per required group with no selection
RECURSIVE GroupErrorsFrom(_, _, _)
GroupErrorsFrom(st, i, errors) ==
    IF i > Len(EXCLUSIVE_GROUPS) THEN errors
    ELSE GroupErrorsFrom(st, i + 1,
             IF EXCLUSIVE_GROUPS[i].required /\ isEmpty(Get(st, EXCLUSIVE_GROUPS[i].stateKey))
             THEN Append(errors, FieldValidation(EXCLUSIVE_GROUPS[i].stateKey, FALSE,
                                     EXCLUSIVE_GROUPS[i].name \o " must be selected", "error"))
             ELSE errors)

validateExclusiveGroups(st) == GroupErrorsFrom(st, 1, <<>>)

ValidationResult(errors, warnings, conflicts, missingRequired, invalidValues) ==
    [valid |-> Len(errors) = 0, errors |-> errors, warnings |-> warnings,
     conflicts |-> conflicts, missingRequired |-> missingRequired,
     invalidValues |-> invalidValues]

\* the body of the first loop of validateState: one field's result sorted into res
AddFieldResult(res, key, r) ==
    IF r = <<>> THEN res
    ELSE IF r[1].severity = "error"
    THEN IF Find(r[1].message, "required") # 0
         THEN [res EXCEPT !.errors = Append(@, r[1]),
                          !.missingRequired = Append(@, key)]
         ELSE [res EXCEPT !.errors = Append(@, r[1]),
                          !.invalidValues = Append(@, r[1])]
    ELSE [res EXCEPT !.warnings = Append(@, r[1])]

\* the first loop of validateState: over the field definitions
RECURSIVE ValidateFieldsFrom(_, _, _)
ValidateFieldsFrom(st, i, res) ==
    IF i > Len(FIELD_DEFINITIONS) THEN res
    ELSE ValidateFieldsFrom(st, i + 1,
             AddFieldResult(res, FIELD_DEFINITIONS[i].key,
                            validateField(FIELD_DEFINITIONS[i], st)))

\* conflict.rule.relatedFields?.[0] || conflict.rule.id
ConflictField(rule) ==
    IF Len(rule.relatedFields) > 0 /\ rule.relatedFields[1] # ""
    THEN rule.relatedFields[1] ELSE rule.id

\* a loop body that makes every detected conflict a blocking error
AddConflictAlwaysBlocking(res, cr) ==
    [res EXCEPT !.errors = Append(@,
        FieldValidation(ConflictField(cr), FALSE, cr.message, "error"))]

\* the body of the last loop of validateState: one conflict sorted by its severity
AddConflict(res, cr) ==
    IF cr.severity = "error"
    THEN [res EXCEPT !.errors = Append(@,
             FieldValidation(ConflictField(cr), FALSE, cr.message, "error"))]
    ELSE IF cr.severity = "warning"
    THEN [res EXCEPT !.warnings = Append(@,
             FieldValidation(ConflictField(cr), TRUE, cr.message, "warning"))]
    ELSE res

\* the last loop of validateState: over the detected conflicts
RECURSIVE AddConflictsFrom(_, _, _)
AddConflictsFrom(conflicts, i, res) ==
    IF i > Len(conflicts) THEN res
    ELSE AddConflictsFrom(conflicts, i + 1, AddConflict(res, conflicts[i].rule))

\* a.map(e => e.field)
FieldsOf(xs) == [i \in 1..Len(xs) |-> xs[i].field]

\* the errors of the exclusive groups appended to the field results
AddGroupErrors(res, groupErrors) ==
    [res EXCEPT !.errors = @ \o groupErrors,
                !.missingRequired = @ \o FieldsOf(groupErrors)]

\* the return statement of validateState
Validated(res, conflicts) ==
    ValidationResult(res.errors, res.warnings, conflicts, res.missingRequired,
                     res.invalidValues)

\* validateState with the conflicts detectConflicts returned
ValidateWith(st, conflicts) ==
    Validated(AddConflictsFrom(conflicts, 1,
                  AddGroupErrors(ValidateFieldsFrom(st, 1,
                                     [errors |-> <<>>, warnings |-> <<>>,
                                      missingRequired |-> <<>>, invalidValues |-> <<>>]),
                                 validateExclusiveGroups(st))),
              conflicts)

validateState(st) == ValidateWith(st, detectConflicts(st))

\* Math.round(num / den) for num >= 0 and den > 0: halves round up
MathRound(num, den) == (2 * num + den) \div (2 * den)

\* a filter that also keeps the definitions required under a condition
RequiredOrConditional(defs) ==
    SelectSeq(defs, LAMBDA f : f.required \/ f.requiredWhen # "")

\* the definitions with the unconditional required flag
RequiredFields(defs) == SelectSeq(defs, LAMBDA f : f.required)

\* how many of the definitions have a value that is not empty in st
FilledCount(defs, st) ==
    Cardinality({i \in 1..Len(defs) : ~isEmpty(Get(st, defs[i].key))})

\* completionPercent of getValidationSummary over the definitions defs
CompletionPercent(defs, st) ==
    IF Len(RequiredFields(defs)) > 0
    THEN MathRound(100 * FilledCount(RequiredFields(defs), st), Len(RequiredFields(defs)))
    ELSE 100

\* the return statement of getValidationSummary
Summary(res, completionPercent) ==
    [canGenerate |-> res.valid, errorCount |-> Len(res.errors),
     warningCount |-> Len(res.warnings), completionPercent |-> completionPercent]

getValidationSummary(st) ==
    Summary(validateState(st), CompletionPercent(FIELD_DEFINITIONS, st))

----------------------------------------------------------------------------
(* Bounds of the model *)

\* the largest Z motor count a user enters
MaxMotorCount == 4
\* the largest number of rules in a rule table other than the built-in one
MaxRules == 2

\* values of the variables an operation does not use
NoRules == <<>>
NoGroup == [id |-> "", name |-> "", stateKey |-> "", required |-> FALSE, options |-> <<>>]
NoResult == <<>>

----------------------------------------------------------------------------
(* The condition engine called on a wizard state: SpecEval *)

EvalKeys == {"x", "a"}
\* '' is entered to clear a field
EvalValues == {Str("a"), Str("0"), Num(0), Num(1), JsTrue, JsFalse, Str("")}

\* conditions with a missing operand, an unclosed parenthesis or an
\* unclosed list
MalformedConditions ==
    {"x ==", "x !=", "a and", "(a", "(x == 'a'", "x in ['a'", "x not in ['a'"}

WellFormedConditions ==
    {"", "x", "not x", "x == 'a'", "a or x", "x in ['a', 'b']"}

Conditions == MalformedConditions \cup WellFormedConditions

EvalInit ==
    /\ state = EmptyState
    /\ rules = NoRules
    /\ userOverrides = {}
    /\ group = NoGroup
    /\ op = "init"
    /\ arg = ""
    /\ result = NoResult

\* the user edits a field: wizardStore.setField
EvalSetField(key, value) ==
    /\ state' = setField(state, key, value)
    /\ op' = "setField"
    /\ arg' = key
    /\ result' = NoResult
    /\ UNCHANGED <<rules, userOverrides, group>>

\* useWizardLogic.evaluate: evaluateCondition on the current state
Evaluate(condition) ==
    /\ op' = "evaluateCondition"
    /\ arg' = condition
    /\ result' = evaluateCondition(condition, state)
    /\ UNCHANGED <<state, rules, userOverrides, group>>

EvalNext ==
    \/ \E key \in EvalKeys, value \in EvalValues : EvalSetField(key, value)
    \/ \E condition \in Conditions : Evaluate(condition)

SpecEval == EvalInit /\ [][EvalNext]_vars

\* C1: evaluateCondition is fail-closed: on a malformed condition string
\* (missing operand, unclosed parenthesis, unclosed list) it returns false,
\* whatever the state
C1_FailClosed ==
    (op = "evaluateCondition" /\ arg \in MalformedConditions) => result = FALSE

----------------------------------------------------------------------------
(* The implication resolver called on a wizard state: SpecImpl *)

\* rules over the keys a, k and m from which the other rule tables are made
RulePool == <<
    Implication("default_k", "a", <<KV("k", Num(1))>>, FALSE, -1),
    Implication("specific_k", "a", <<KV("k", Num(2))>>, FALSE, 0),
    Implication("soft_k", "a", <<KV("k", Num(2)), KV("m", Num(1))>>, TRUE, 0),
    Implication("chain_m", "k == 2", <<KV("m", Num(1))>>, FALSE, 0),
    Implication("cycle_k", "m", <<KV("k", Num(1))>>, FALSE, 0) >>

\* the tables of 1..MaxRules distinct rules of the pool, in any order
RECURSIVE PoolTables(_)
PoolTables(n) ==
    IF n = 0 THEN {<<>>}
    ELSE {Append(t, RulePool[i]) :
             t \in PoolTables(n - 1),
             i \in 1..Len(RulePool)}

DistinctIds(table) ==
    \A i, j \in 1..Len(table) : table[i].id = table[j].id => i = j

RuleTables ==
    {IMPLICATIONS} \cup
    {t \in UNION {PoolTables(n) : n \in 1..MaxRules} : DistinctIds(t)}

\* the (key, value) pairs a user enters, by rule table
ImplInputs(table) ==
    IF table = IMPLICATIONS
    THEN {<<"printer.kinematics", Str("corexy-awd")>>,
          <<"printer.kinematics", Str("cartesian")>>,
          <<"printer.awd_enabled", JsTrue>>,
          <<"leveling.type", Str("z_tilt")>>,
          <<"leveling.type", Str("")>>}
         \cup {<<"z_config.motor_count", Num(n)>> : n \in 2..MaxMotorCount}
    ELSE {<<"a", JsTrue>>, <<"a", Str("")>>, <<"k", Num(1)>>, <<"k", Num(2)>>,
          <<"k", Str("")>>, <<"m", Num(1)>>, <<"m", Str("")>>}

\* the override sets a caller passes, by rule table
OverrideSets(table) ==
    IF table = IMPLICATIONS THEN SUBSET {"leveling.type"} ELSE SUBSET {"k", "m"}

ImplInit ==
    /\ state = EmptyState
    /\ rules \in RuleTables
    /\ userOverrides \in OverrideSets(rules)
    /\ group = NoGroup
    /\ op = "init"
    /\ arg = ""
    /\ result = NoResult

ImplSetField(key, value) ==
    /\ state' = setField(state, key, value)
    /\ op' = "setField"
    /\ arg' = key
    /\ result' = NoResult
    /\ UNCHANGED <<rules, userOverrides, group>>

\* a resolver that writes its changes into the state it was given
GetImplicationChangesInPlace ==
    /\ op' = "applyImplications"
    /\ arg' = ""
    /\ result' = applyImplications(rules, state, userOverrides)
    /\ state' = setFields(state, applyImplications(rules, state, userOverrides).changedValues)
    /\ UNCHANGED <<rules, userOverrides, group>>

\* getImplicationChanges: the diff is computed and shown, not merged
GetImplicationChanges ==
    /\ op' = "applyImplications"
    /\ arg' = ""
    /\ result' = applyImplications(rules, state, userOverrides)
    /\ UNCHANGED <<state, rules, userOverrides, group>>

\* applyImplicationsToState: the diff is merged with setFields when it is
\* not empty (the hook passes no override set; a caller may)
applyImplicationsToState ==
    LET res == applyImplications(rules, state, userOverrides) IN
    /\ op' = "applyImplicationsToState"
    /\ arg' = ""
    /\ result' = res
    /\ state' = IF DOMAIN res.changedValues # {}
                THEN setFields(state, res.changedValues) ELSE state
    /\ UNCHANGED <<rules, userOverrides, group>>

ImplNext ==
    \/ \E kv \in ImplInputs(rules) : ImplSetField(kv[1], kv[2])
    \/ GetImplicationChanges
    \/ applyImplicationsToState

SpecImpl == ImplInit /\ [][ImplNext]_vars

\* rule i of the table feeds rule j: it sets a key the condition of j reads
Feeds(table, i, j) ==
    \E e \in Range(table[i].setValues) :
        e.key \in getConditionDependencies(table[j].condition)

\* the rules reachable from rule i along at most n feeds
RECURSIVE FedWithin(_, _, _)
FedWithin(table, i, n) ==
    IF n = 0 THEN {}
    ELSE LET direct == {j \in 1..Len(table) : Feeds(table, i, j)}
         IN direct \cup UNION {FedWithin(table, j, n - 1) : j \in direct}

\* no rule feeds itself, directly or through other rules
NonCyclic(table) ==
    \A i \in 1..Len(table) : i \notin FedWithin(table, i, Len(table))

\* the rules of the table in application order whose condition holds in st
\* and that list key in setValues
FiringFor(table, st, key) ==
    SelectSeq(SortByPriority(table),
              LAMBDA r : /\ evaluateCondition(r.condition, st)
                         /\ \E e \in Range(r.setValues) : e.key = key)

\* the value rule r sets key to
ValueOf(r, key) == (CHOOSE e \in Range(r.setValues) : e.key = key).value

\* rule r may not change key: the user has overridden it
Protected(r, key, overrides) == r.allowOverride /\ key \in overrides

KeysOf(table) ==
    UNION {{e.key : e \in Range(table[i].setValues)} : i \in 1..Len(table)}

\* C2: implication idempotence: for a non-cyclic rule table, once the diff
\* of applyImplications has been merged into the state, applyImplications
\* on the merged state returns no changed value
C2_Idempotent ==
    (op = "applyImplicationsToState" /\ NonCyclic(rules))
        => DOMAIN applyImplications(rules, state, userOverrides).changedValues = {}

\* C3: priority supersession: when two or more rules whose conditions hold
\* (and that the override set does not keep from the key) list the same
\* key, the value changedValues has for the key, if any, is the value of
\* the rule that comes last in ascending-priority order
C3_PrioritySupersession ==
    op = "applyImplications" =>
        \A key \in DOMAIN result.changedValues :
            LET firing == SelectSeq(FiringFor(rules, state, key),
                              LAMBDA r : ~Protected(r, key, userOverrides))
            IN Len(firing) >= 2 =>
                   result.changedValues[key] = ValueOf(firing[Len(firing)], key)

\* C4: user-override protection: a firing rule is recorded as skipped for a
\* key, and does not propose it, exactly when the rule has allowOverride
\* and the key is in userOverrides; a rule without allowOverride proposes
\* its value also for a key in userOverrides
C4_OverrideProtection ==
    op = "applyImplications" =>
        /\ \A r \in Range(rules), key \in KeysOf(rules) :
               (r.id \o ":" \o key) \in Range(result.skippedImplications)
                   <=> /\ evaluateCondition(r.condition, state)
                       /\ \E e \in Range(r.setValues) : e.key = key
                       /\ Protected(r, key, userOverrides)
        /\ \A key \in DOMAIN result.changedValues :
               \E r \in Range(FiringFor(rules, state, key)) :
                   /\ ~Protected(r, key, userOverrides)
                   /\ ~StrictEq(Get(state, key), ValueOf(r, key))
                   /\ r.id \in Range(result.appliedImplications)
        /\ \A key \in KeysOf(rules) :
               \A r \in Range(FiringFor(rules, state, key)) :
                   (~r.allowOverride /\ ~StrictEq(Get(state, key), ValueOf(r, key)))
                       => /\ key \in DOMAIN result.changedValues
                          /\ r.id \in Range(result.appliedImplications)

\* a rule with allowOverride was skipped for an overridden key while a rule
\* without allowOverride changed an overridden key
C4_Witness ==
    /\ op = "applyImplications"
    /\ result.skippedImplications # <<>>
    /\ \E key \in userOverrides \cap DOMAIN result.changedValues :
           \E r \in Range(FiringFor(rules, state, key)) : ~r.allowOverride

\* rule r acts in a call: it is recorded as applied or as skipped
ActsIn(r, res) ==
    \/ r.id \in Range(res.appliedImplications)
    \/ \E e \in Range(r.setValues) :
           (r.id \o ":" \o e.key) \in Range(res.skippedImplications)

\* rule r has a value to propose in st: its condition holds, and an entry
\* that the override set does not protect differs from the state
Proposes(r, st, overrides) ==
    /\ evaluateCondition(r.condition, st)
    /\ \E e \in Range(r.setValues) :
           ~Protected(r, e.key, overrides) /\ ~StrictEq(Get(st, e.key), e.value)

\* the result of a call holds only what the rules firing on the snapshot
\* st propose
FromSnapshotOnly(table, st, res) ==
    /\ \A r \in Range(table) : ~evaluateCondition(r.condition, st) => ~ActsIn(r, res)
    /\ \A key \in DOMAIN res.changedValues :
           \E r \in Range(FiringFor(table, st, key)) : ValueOf(r, key) = res.changedValues[key]

\* C19: single pass: applyImplications evaluates every rule condition on
\* the input snapshot only: a rule whose condition is false on the input
\* contributes nothing to the call, also when another rule of the call
\* sets what its condition reads; it takes effect in the next call, once
\* the caller has merged the diff
C19_SinglePass ==
    /\ op = "applyImplications" => FromSnapshotOnly(rules, state, result)
    /\ op = "applyImplicationsToState" =>
           \A r \in Range(rules) :
               Proposes(r, state, userOverrides)
                   => r.id \in Range(applyImplications(rules, state, userOverrides).appliedImplications)

\* a rule set k = 2 and the diff was merged; the rule that reads k did not
\* act in that call and proposes m in the next
C19_Witness ==
    /\ op = "applyImplicationsToState"
    /\ \E i \in 1..Len(rules) : rules[i].id = "chain_m"
    /\ "specific_k" \in Range(result.appliedImplications)
    /\ "chain_m" \notin Range(result.appliedImplications)
    /\ "m" \notin DOMAIN result.changedValues
    /\ "m" \in DOMAIN applyImplications(rules, state, userOverrides).changedValues

\* the condition of rule r holds in st and the state has every value the
\* rule sets
AlreadySatisfied(r, st) ==
    /\ evaluateCondition(r.condition, st)
    /\ r.setValues # <<>>
    /\ \A e \in Range(r.setValues) : StrictEq(Get(st, e.key), e.value)

\* C20: no redundant churn: every entry of changedValues differs from the
\* value the state has for its key, and a firing rule whose values the
\* state already has adds nothing to changedValues or appliedImplications
C20_NoChurn ==
    op = "applyImplications" =>
        /\ \A key \in DOMAIN result.changedValues :
               ~StrictEq(Get(state, key), result.changedValues[key])
        /\ \A r \in Range(rules) :
               AlreadySatisfied(r, state) => r.id \notin Range(result.appliedImplications)
        /\ (\A r \in Range(rules) :
                evaluateCondition(r.condition, state) => AlreadySatisfied(r, state))
               => /\ DOMAIN result.changedValues = {}
                  /\ result.appliedImplications = <<>>

\* a rule fired whose value the state already had, and the call returned
\* no change
C20_Witness ==
    /\ op = "applyImplications"
    /\ \E r \in Range(rules) : AlreadySatisfied(r, state)
    /\ DOMAIN result.changedValues = {}
    /\ result.appliedImplications = <<>>

----------------------------------------------------------------------------
(* Selections in one exclusive group, merged into the state: SpecGroup *)

\* the keys the options of the group imply or clear
SideKeys(grp) ==
    UNION {{e.key : e \in Range(grp.options[i].impliedValues)}
               \cup Range(grp.options[i].clearValues) : i \in 1..Len(grp.options)}

\* the option values a caller passes: those of the group and one that is not
OptionValues(grp) ==
    {grp.options[i].value : i \in 1..Len(grp.options)} \cup {"unknown"}

\* the values a user enters by hand for a key the group implies or clears
SideValues == {Num(5), JsFalse}

GroupInit ==
    /\ state = EmptyState
    /\ rules = NoRules
    /\ userOverrides = {}
    /\ group \in Range(EXCLUSIVE_GROUPS)
    /\ op = "init"
    /\ arg = ""
    /\ result = NoResult

GroupSetField(key, value) ==
    /\ state' = setField(state, key, value)
    /\ op' = "setField"
    /\ arg' = key
    /\ result' = NoResult
    /\ UNCHANGED <<rules, userOverrides, group>>

\* selectOption followed by the merge of its diff with setFields; result
\* keeps the diff and the state the selection was made in
SelectOption(optionValue) ==
    LET changes == selectOption(group, optionValue) IN
    /\ op' = "selectOption"
    /\ arg' = optionValue
    /\ result' = [changes |-> changes, before |-> state]
    /\ state' = setFields(state, changes)
    /\ UNCHANGED <<rules, userOverrides, group>>

GroupNext ==
    \/ \E key \in SideKeys(group), value \in SideValues : GroupSetField(key, value)
    \/ \E optionValue \in OptionValues(group) : SelectOption(optionValue)

SpecGroup == GroupInit /\ [][GroupNext]_vars

\* C5: exclusive-group retraction: when an option of the group is selected,
\* the diff maps to DELETE every key that another option of the group
\* implies and the chosen option does not set, whatever was selected
\* before, and the merge removes the key from the state
C5_Retraction ==
    (op = "selectOption" /\ FindOption(group.options, arg, 1) # 0) =>
        LET option == group.options[FindOption(group.options, arg, 1)]
            chosen == {group.stateKey} \cup {e.key : e \in Range(option.impliedValues)}
        IN \A o \in Range(group.options) :
               o.value # arg =>
                   \A e \in Range(o.impliedValues) :
                       e.key \notin chosen =>
                           /\ e.key \in DOMAIN result.changes
                           /\ result.changes[e.key] = Undefined
                           /\ e.key \notin DOMAIN state

\* an option without implied or cleared values was selected in a state that
\* held a value implied by the option selected before, and the diff deletes it
C5_Witness ==
    /\ op = "selectOption"
    /\ FindOption(group.options, arg, 1) # 0
    /\ LET option == group.options[FindOption(group.options, arg, 1)] IN
       /\ option.impliedValues = <<>>
       /\ option.clearValues = <<>>
       /\ \E o \in Range(group.options) :
              /\ Get(result.before, group.stateKey) = Str(o.value)
              /\ \E e \in Range(o.impliedValues) :
                     /\ Get(result.before, e.key) = e.value
                     /\ result.changes[e.key] = Undefined

----------------------------------------------------------------------------
(* Stepper inheritance on a wizard state: SpecInherit *)

\* the steppers whose fields a user edits
EditedSteppers == {"stepper_x", "stepper_y", "stepper_y1"}

\* the steppers inheritance is applied to; stepper_x has no parent
InheritSteppers == {"stepper_x", "stepper_y", "stepper_y1"}

\* the (key, value) pairs a user enters; '' clears the field
InheritInputs ==
    {<<stepper \o ".driver_type", Str(v)>> :
        stepper \in EditedSteppers, v \in {"tmc2209", ""}}
    \cup {<<stepper \o ".interpolate", v>> :
        stepper \in EditedSteppers, v \in {JsTrue, JsFalse}}
    \cup {<<"printer.awd_enabled", JsTrue>>}

InheritInit ==
    /\ state = EmptyState
    /\ rules = NoRules
    /\ userOverrides = {}
    /\ group = NoGroup
    /\ op = "init"
    /\ arg = ""
    /\ result = NoResult

InheritSetField(key, value) ==
    /\ state' = setField(state, key, value)
    /\ op' = "setField"
    /\ arg' = key
    /\ result' = NoResult
    /\ UNCHANGED <<rules, userOverrides, group>>

InheritDeleteField(key) ==
    /\ state' = deleteField(state, key)
    /\ op' = "deleteField"
    /\ arg' = key
    /\ result' = NoResult
    /\ UNCHANGED <<rules, userOverrides, group>>

\* applyInheritance called for its result alone
ApplyInheritance(stepperName) ==
    /\ op' = "applyInheritance"
    /\ arg' = stepperName
    /\ result' = applyInheritance(stepperName, state)
    /\ UNCHANGED <<state, rules, userOverrides, group>>

\* applyStepperInheritance: the changes are merged when there are any
applyStepperInheritance(stepperName) ==
    LET changes == applyInheritance(stepperName, state) IN
    /\ op' = "applyStepperInheritance"
    /\ arg' = stepperName
    /\ result' = changes
    /\ state' = IF DOMAIN changes # {} THEN setFields(state, changes) ELSE state
    /\ UNCHANGED <<rules, userOverrides, group>>

InheritNext ==
    \/ \E kv \in InheritInputs : InheritSetField(kv[1], kv[2])
    \/ \E kv \in InheritInputs : InheritDeleteField(kv[1])
    \/ \E stepperName \in InheritSteppers : ApplyInheritance(stepperName)
    \/ \E stepperName \in InheritSteppers : applyStepperInheritance(stepperName)

SpecInherit == InheritInit /\ [][InheritNext]_vars

\* C6: inheritance is non-destructive: the map applyInheritance returns has
\* no key the state already holds, whatever the parent's value is
C6_NonDestructive ==
    op = "applyInheritance" => DOMAIN result \cap DOMAIN state = {}

\* applyInheritance filled a field of the child while the child held
\* another field with a value other than the parent's
C6_Witness ==
    /\ op = "applyInheritance"
    /\ DOMAIN result # {}
    /\ getInheritanceRelation(arg) # 0
    /\ LET relation == INHERITANCE_RELATIONS[getInheritanceRelation(arg)] IN
       \E field \in Range(relation.fields) :
           /\ (arg \o "." \o field) \in DOMAIN state
           /\ (relation.parent \o "." \o field) \in DOMAIN state
           /\ state[arg \o "." \o field] # state[relation.parent \o "." \o field]

\* C7: applyInheritance is idempotent: once its changes are merged into
\* the state, applying it again for the same child returns an empty map
C7_InheritIdempotent ==
    op = "applyStepperInheritance" => DOMAIN applyInheritance(arg, state) = {}

\* changes were merged, a false value among them
C7_Witness ==
    /\ op = "applyStepperInheritance"
    /\ \E key \in DOMAIN result : result[key] = JsFalse /\ state[key] = JsFalse

----------------------------------------------------------------------------
(* Validation and conflict detection on a wizard state: SpecValidate *)

\* a saved configuration with every field the validator requires
CompleteState ==
    LET kvs == <<
            KV("printer.kinematics", Str("corexy")),
            KV("mcu.main.board_type", Str("octopus")),
            KV("stepper_x.motor_port", Str("MOTOR_0")),
            KV("stepper_x.step_pin", Str("PF13")),
            KV("stepper_x.dir_pin", Str("PF12")),
            KV("stepper_x.enable_pin", Str("PF14")),
            KV("stepper_x.rotation_distance", Num(40)),
            KV("stepper_x.microsteps", Num(16)),
            KV("stepper_y.motor_port", Str("MOTOR_1")),
            KV("stepper_y.step_pin", Str("PG0")),
            KV("stepper_y.dir_pin", Str("PG1")),
            KV("stepper_y.enable_pin", Str("PF15")),
            KV("stepper_y.rotation_distance", Num(40)),
            KV("stepper_y.microsteps", Num(16)),
            KV("stepper_z.motor_port", Str("MOTOR_2")),
            KV("stepper_z.rotation_distance", Num(8)),
            KV("extruder.motor_port", Str("MOTOR_6")),
            KV("extruder.rotation_distance", Num(22)),
            KV("extruder.heater_port", Str("HE0")),
            KV("extruder.thermistor_port", Str("T0")),
            KV("extruder.sensor_type", Str("Generic 3950")) >>
    IN AssignAll(EmptyState, kvs, 1)

\* the configurations a user loads: the complete one as saved by hand (an
\* empty canbus_uuid in it), and the same with a bed limit above 120
SavedStates ==
    {Put(CompleteState, "mcu.toolboard.canbus_uuid", Str("")),
     Put(CompleteState, "heater_bed.max_temp", Num(130))}

\* the (key, value) pairs a user enters; '' clears the field
ValInputs ==
    {<<"mcu.toolboard.enabled", JsTrue>>,
     <<"mcu.toolboard.connection_type", Str("can")>>,
     <<"mcu.toolboard.connection_type", Str("usb")>>,
     <<"mcu.toolboard.canbus_uuid", Str("a1b2c3")>>,
     <<"leveling.type", Str("z_tilt")>>,
     <<"printer.kinematics", Str("")>>}
    \cup {<<"z_config.motor_count", Num(n)>> : n \in 2..MaxMotorCount}

ValInit ==
    /\ state = EmptyState
    /\ rules = NoRules
    /\ userOverrides = {}
    /\ group = NoGroup
    /\ op = "init"
    /\ arg = ""
    /\ result = NoResult

ValLoadState(newState) ==
    /\ state' = loadState(newState)
    /\ op' = "loadState"
    /\ arg' = ""
    /\ result' = NoResult
    /\ UNCHANGED <<rules, userOverrides, group>>

ValSetField(key, value) ==
    /\ state' = setField(state, key, value)
    /\ op' = "setField"
    /\ arg' = key
    /\ result' = NoResult
    /\ UNCHANGED <<rules, userOverrides, group>>

\* useValidation: validateState on the current state
ValidateState ==
    /\ op' = "validateState"
    /\ arg' = ""
    /\ result' = validateState(state)
    /\ UNCHANGED <<state, rules, userOverrides, group>>

DetectConflicts ==
    /\ op' = "detectConflicts"
    /\ arg' = ""
    /\ result' = detectConflicts(state)
    /\ UNCHANGED <<state, rules, userOverrides, group>>

ValNext ==
    \/ \E newState \in SavedStates : ValLoadState(newState)
    \/ \E kv \in ValInputs : ValSetField(kv[1], kv[2])
    \/ ValidateState
    \/ DetectConflicts

SpecValidate == ValInit /\ [][ValNext]_vars

\* C8: the validator's required-ness agrees with evaluateCondition: a field
\* with a requiredWhen condition is reported missing exactly when
\* evaluateCondition holds for the condition and the field is empty
C8_RequiredWhenAgrees ==
    op = "validateState" =>
        \A i \in 1..Len(FIELD_DEFINITIONS) :
            LET def == FIELD_DEFINITIONS[i] IN
            (~def.required /\ def.requiredWhen # "") =>
                (def.key \in Range(result.missingRequired)
                    <=> /\ evaluateCondition(def.requiredWhen, state)
                        /\ isEmpty(Get(state, def.key)))

\* the rules of the conflict table whose condition holds in st
FiringConflictRules(st) ==
    SelectSeq(CONFLICT_RULES, LAMBDA r : evaluateCondition(r.condition, st))

\* C9: validity gate: valid is true exactly when no field definition is
\* violated, no required group is unselected and no conflict of severity
\* error is detected; the errors list holds exactly these, and conflicts of
\* another severity do not count
C9_ValidityGate ==
    op = "validateState" =>
        LET fieldErrors ==
                {i \in 1..Len(FIELD_DEFINITIONS) : validateField(FIELD_DEFINITIONS[i], state) # <<>>}
            groupErrors ==
                {i \in 1..Len(EXCLUSIVE_GROUPS) :
                    EXCLUSIVE_GROUPS[i].required /\ isEmpty(Get(state, EXCLUSIVE_GROUPS[i].stateKey))}
            errorConflicts ==
                SelectSeq(FiringConflictRules(state), LAMBDA r : r.severity = "error")
        IN /\ result.valid <=> (fieldErrors = {} /\ groupErrors = {} /\ errorConflicts = <<>>)
           /\ result.valid <=> result.errors = <<>>
           /\ Len(result.errors) =
                  Cardinality(fieldErrors) + Cardinality(groupErrors) + Len(errorConflicts)
           /\ \A e \in Range(result.errors) : e.severity = "error"

\* a state with a conflict of severity warning and nothing else was
\* validated and found valid
C9_Witness ==
    /\ op = "validateState"
    /\ result.valid
    /\ \E c \in Range(result.conflicts) : c.rule.severity = "warning"

\* C10: conflict detection is exact and independent: detectConflicts
\* returns one conflict for each rule whose condition holds and none for
\* another rule, in declaration order, each with the rule's related fields
C10_ConflictsExact ==
    op = "detectConflicts" =>
        LET firing == FiringConflictRules(state) IN
        /\ Len(result) = Len(firing)
        /\ \A j \in 1..Len(firing) :
               /\ result[j].rule = firing[j]
               /\ DOMAIN result[j].context = Range(firing[j].relatedFields)
               /\ \A field \in DOMAIN result[j].context :
                      result[j].context[field] = Get(state, field)

\* three rules fired together: one on the leveling type and the two on
\* the missing selections
C10_Witness ==
    /\ op = "detectConflicts"
    /\ Len(result) >= 3
    /\ \E j \in 1..Len(result) : result[j].rule.id = "z_tilt_requires_2_or_3_motors"

\* the state of the scenario: Z Tilt chosen with four Z motors
ZTiltFourMotors ==
    Put(Put(EmptyState, "leveling.type", Str("z_tilt")), "z_config.motor_count", Num(4))

\* the conflicts of severity error among those detected
ErrorConflicts(conflicts) == SelectSeq(conflicts, LAMBDA c : c.rule.severity = "error")

\* C11: on the state that holds exactly leveling.type = 'z_tilt' and
\* z_config.motor_count = 4, detectConflicts returns exactly one conflict of
\* severity error, the one with message "Z Tilt requires 2 or 3 Z motors",
\* and its context is exactly the two fields with their values
C11_ZTiltScenario ==
    (op = "detectConflicts" /\ state = ZTiltFourMotors) =>
        /\ Len(ErrorConflicts(result)) = 1
        /\ ErrorConflicts(result)[1].rule.message = "Z Tilt requires 2 or 3 Z motors"
        /\ ErrorConflicts(result)[1].context = ZTiltFourMotors

----------------------------------------------------------------------------
(* The Z Tilt scenario: edits, conflict detection and the built-in         *)
(* implications merged into the state: SpecScenario                        *)

\* the (key, value) pairs the user enters in the scenario
ScenarioInputs ==
    {<<"leveling.type", Str("z_tilt")>>,
     <<"printer.kinematics", Str("corexy")>>}
    \cup {<<"z_config.motor_count", Num(n)>> : n \in 2..MaxMotorCount}

ScenarioInit ==
    /\ state = EmptyState
    /\ rules = IMPLICATIONS
    /\ userOverrides \in SUBSET {"leveling.type"}
    /\ group = NoGroup
    /\ op = "init"
    /\ arg = ""
    /\ result = NoResult

ScenarioNext ==
    \/ \E kv \in ScenarioInputs : ImplSetField(kv[1], kv[2])
    \/ DetectConflicts
    \/ applyImplicationsToState

SpecScenario == ScenarioInit /\ [][ScenarioNext]_vars

\* the ids of the rules of the conflicts detected
ConflictIds(conflicts) == {conflicts[j].rule.id : j \in 1..Len(conflicts)}

\* with three Z motors no conflict on Z Tilt is detected
NoZTiltConflictWithThree ==
    (op = "detectConflicts" /\ Get(state, "z_config.motor_count") = Num(3))
        => "z_tilt_requires_2_or_3_motors" \notin ConflictIds(result)

\* with three Z motors, merging the diff of applyImplications does not make
\* leveling.type 'quad_gantry_level'
MergeKeepsLevelingWithThree ==
    (Get(state, "z_config.motor_count") = Num(3) /\ op' = "applyImplicationsToState")
        => (Get(state', "leveling.type") = Str("quad_gantry_level")
               => Get(state, "leveling.type") = Str("quad_gantry_level"))

\* C12: once motor_count is 3 (changed from 4 with leveling.type 'z_tilt'),
\* the Z Tilt conflict is no longer detected, and applyImplications run and
\* merged any number of times never sets leveling.type to
\* 'quad_gantry_level'
C12_ZTiltAfterChange ==
    /\ []NoZTiltConflictWithThree
    /\ [][MergeKeepsLevelingWithThree]_vars

\* the implications were merged a second time with Z Tilt and three motors
\* and had nothing left to change
C12_Witness ==
    /\ op = "applyImplicationsToState"
    /\ Get(state, "leveling.type") = Str("z_tilt")
    /\ Get(state, "z_config.motor_count") = Num(3)
    /\ "printer.awd_enabled" \in DOMAIN state
    /\ DOMAIN result.changedValues = {}

----------------------------------------------------------------------------
(* Every operation of the engine called by the wizard on its state, and    *)
(* the diffs the wizard merges: SpecEngine                                 *)

\* the (key, value) pairs the user enters
EngineInputs ==
    {<<"printer.kinematics", Str("corexy-awd")>>,
     <<"stepper_x.driver_type", Str("tmc2209")>>,
     <<"leveling.type", Str("z_tilt")>>}

EngineConditions == {"printer.awd_enabled", "leveling.type == 'z_tilt'"}

EngineSteppers == {"stepper_x1"}

EngineInit ==
    /\ state = EmptyState
    /\ rules = IMPLICATIONS
    /\ userOverrides = {}
    /\ group = EXCLUSIVE_GROUPS[1]
    /\ op = "init"
    /\ arg = ""
    /\ result = NoResult

\* selectOption called for its diff
SelectOptionChanges(optionValue) ==
    /\ op' = "selectOption"
    /\ arg' = optionValue
    /\ result' = selectOption(group, optionValue)
    /\ UNCHANGED <<state, rules, userOverrides, group>>

\* getStepperInheritedValues of the hook
GetInheritedValues(stepperName) ==
    /\ op' = "getInheritedValues"
    /\ arg' = stepperName
    /\ result' = getInheritedValues(stepperName, state)
    /\ UNCHANGED <<state, rules, userOverrides, group>>

\* stepperHasCustomValues of the hook
HasCustomValues(stepperName) ==
    /\ op' = "hasCustomValues"
    /\ arg' = stepperName
    /\ result' = hasCustomValues(stepperName, state)
    /\ UNCHANGED <<state, rules, userOverrides, group>>

CopyStepperSettings(fromStepper, toStepper) ==
    /\ op' = "copyStepperSettings"
    /\ arg' = toStepper
    /\ result' = copyStepperSettings(fromStepper, toStepper, state, {})
    /\ UNCHANGED <<state, rules, userOverrides, group>>

\* validationSummary of the hook
GetValidationSummary ==
    /\ op' = "getValidationSummary"
    /\ arg' = ""
    /\ result' = getValidationSummary(state)
    /\ UNCHANGED <<state, rules, userOverrides, group>>

EngineNext ==
    \/ \E kv \in EngineInputs : ImplSetField(kv[1], kv[2])
    \/ \E condition \in EngineConditions : Evaluate(condition)
    \/ GetImplicationChanges
    \/ DetectConflicts
    \/ \E optionValue \in OptionValues(group) : SelectOptionChanges(optionValue)
    \/ \E stepperName \in EngineSteppers : GetInheritedValues(stepperName)
    \/ \E stepperName \in EngineSteppers : ApplyInheritance(stepperName)
    \/ \E stepperName \in EngineSteppers : HasCustomValues(stepperName)
    \/ \E stepperName \in EngineSteppers : CopyStepperSettings("stepper_x", stepperName)
    \/ ValidateState
    \/ GetValidationSummary
    \/ applyImplicationsToState
    \/ \E stepperName \in EngineSteppers : applyStepperInheritance(stepperName)

SpecEngine == EngineInit /\ [][EngineNext]_vars

\* the operations of the engine
EngineOperations ==
    {"evaluateCondition", "applyImplications", "detectConflicts", "selectOption",
     "getInheritedValues", "applyInheritance", "hasCustomValues",
     "copyStepperSettings", "validateState", "getValidationSummary"}

\* the operations of the caller that write the state: an edit, or a diff
\* of the engine merged
CallerWrites == {"setField", "applyImplicationsToState", "applyStepperInheritance"}

\* an operation of the engine leaves the state and the tables as they were
EngineStepIsPure ==
    op' \in EngineOperations => UNCHANGED <<state, rules, userOverrides, group>>

\* the state changes only in a step of the caller
OnlyCallerWrites == state' # state => op' \in CallerWrites

\* C13: purity: every operation of the engine leaves the state snapshot
\* and the rule tables it is given unchanged; the state changes only when
\* the caller edits it or merges a returned diff
C13_EnginePurity == [][EngineStepIsPure /\ OnlyCallerWrites]_vars

\* the resolver returned a diff that is not empty and the state it was
\* given does not hold it
C13_Witness ==
    /\ op = "applyImplications"
    /\ DOMAIN result.changedValues # {}
    /\ \A key \in DOMAIN result.changedValues : Get(state, key) # result.changedValues[key]

----------------------------------------------------------------------------
(* tokenize run one loop iteration at a time, then the parser, on          *)
(* condition strings that are not well formed: SpecParse.  While tokenize  *)
(* runs, result holds pos, the tokens pushed and the number of iterations  *)
(* of the loop so far.                                                     *)

\* truncated input, unbalanced brackets, repeated 'not', unknown
\* characters, tokens after a complete expression
ParseInputs ==
    {"x ==", "x in", "a and", "a or", "not", "-", "'ab",
     "(a", "((a", "a)", "a ) or x", "(", ")", "x in ['a'", "x in [,,", "[", "[[",
     "x in ['a' 'b']", "]", "x == 'a' ]",
     "not not not x", "not not",
     "x @ a", "$", "a # x", "x == 'a' ? a",
     "a x", "x == 'a' a", "x 1 2", "a and x x",
     "x == 'a' and a", "x in ['a', 'b'] or a"}

ParseStates ==
    {EmptyState, Put(Put(EmptyState, "x", Str("a")), "a", JsTrue)}

ParseInit ==
    /\ state \in ParseStates
    /\ rules = NoRules
    /\ userOverrides = {}
    /\ group = NoGroup
    /\ op = "init"
    /\ arg \in ParseInputs
    /\ result = NoResult

\* tokenize is entered: pos is at the first character, no token yet
StartTokenize ==
    /\ op = "init"
    /\ op' = "tokenize"
    /\ result' = [pos |-> 1, tokens |-> <<>>, iterations |-> 0]
    /\ UNCHANGED <<state, rules, userOverrides, group, arg>>

\* the tokens scanned so far with those of one more iteration
ScanMore(scanned, more) ==
    [pos |-> more.pos, tokens |-> scanned.tokens \o more.tokens,
     iterations |-> scanned.iterations + 1]

\* one iteration of the while loop of tokenize
TokenizeStep ==
    /\ op = "tokenize"
    /\ result.pos <= Len(arg)
    /\ result' = ScanMore(result, Scan(arg, result.pos))
    /\ UNCHANGED <<state, rules, userOverrides, group, op, arg>>

\* the loop of tokenize has ended: EOF is pushed and the tokens returned
TokenizeEnd ==
    /\ op = "tokenize"
    /\ result.pos > Len(arg)
    /\ op' = "tokenized"
    /\ result' = Append(result.tokens, EOF)
    /\ UNCHANGED <<state, rules, userOverrides, group, arg>>

\* new ConditionParser(tokens, state).parse(): the value, and the position
\* the parser stopped at
Parse ==
    /\ op = "tokenized"
    /\ op' = "parse"
    /\ result' = [tokens |-> result, value |-> parse(result, state),
                  p |-> parseOr(result, state, 1).p]
    /\ UNCHANGED <<state, rules, userOverrides, group, arg>>

ParseNext ==
    \/ StartTokenize
    \/ TokenizeStep
    \/ TokenizeEnd
    \/ Parse

SpecParse == ParseInit /\ [][ParseNext]_vars


\* an iteration of the loop of tokenize moves pos forward
TokenizeProgress ==
    (op = "tokenize" /\ op' = "tokenize") => result'.pos > result.pos

\* the loop of tokenize runs at most once for each character, and the
\* tokens it returns are those of tokenize
TokenizeBounded ==
    /\ op = "tokenize" => result.iterations <= Len(arg)
    /\ op = "tokenized" => result = tokenize(arg)

\* the tokens the parser consumed, closed by EOF
Consumed(tokens, p) ==
    Append(SubSeq(tokens, 1, IF p - 1 < Len(tokens) - 1 THEN p - 1 ELSE Len(tokens) - 1), EOF)

\* every parsePrimary call and every expression consumes at least one
\* token, and the value is that of the tokens consumed: the rest is ignored
ParserProgress ==
    op = "parse" =>
        /\ \A pos \in 1..Len(result.tokens) :
               /\ parsePrimary(result.tokens, state, pos).p > pos
               /\ parseOr(result.tokens, state, pos).p > pos
        /\ result.value \in BOOLEAN
        /\ result.value = parse(Consumed(result.tokens, result.p), state)

\* C14: parser termination: on every condition string (truncated,
\* unbalanced brackets, repeated 'not', unknown characters) tokenize and
\* the parser come to an end, every loop iteration and every parsePrimary
\* call consuming at least one token; the tokens after the first complete
\* expression are ignored and are no error
C14_ParserTerminates ==
    /\ [][TokenizeProgress]_vars
    /\ []TokenizeBounded
    /\ []ParserProgress

\* the parser came to an end before the last token of an unbalanced input
C14_Witness ==
    /\ op = "parse"
    /\ arg = "a ) or x"
    /\ result.p < Len(result.tokens)
    /\ result.value = Truthy(Get(state, "a"))

----------------------------------------------------------------------------
(* Conditions with several operators evaluated on a wizard state:          *)
(* SpecPrecedence                                                          *)

PrecedenceInputs ==
    {<<key, value>> : key \in {"a", "b", "c"}, value \in {JsTrue, JsFalse}}
    \cup {<<"x", Str("v")>>, <<"x", Str("w")>>}

PrecedenceConditions ==
    {"a or b and c", "a or (b and c)", "(a or b) and c", "not x == 'v'", "x == 'v'"}

PrecedenceNext ==
    \/ \E kv \in PrecedenceInputs : EvalSetField(kv[1], kv[2])
    \/ \E condition \in PrecedenceConditions : Evaluate(condition)

SpecPrecedence == EvalInit /\ [][PrecedenceNext]_vars

\* C15: operator precedence is or < and < not < comparison: "a or b and c"
\* evaluates as "a or (b and c)" for every assignment of a, b and c, and
\* unlike "(a or b) and c" when a is true and c is false; "not x == v"
\* evaluates as the negation of "x == v"
C15_Precedence ==
    /\ (op = "evaluateCondition" /\ arg = "a or b and c") =>
           /\ result = evaluateCondition("a or (b and c)", state)
           /\ result = (Truthy(Get(state, "a"))
                           \/ (Truthy(Get(state, "b")) /\ Truthy(Get(state, "c"))))
           /\ (Truthy(Get(state, "a")) /\ ~Truthy(Get(state, "c")))
                  => result # evaluateCondition("(a or b) and c", state)
    /\ (op = "evaluateCondition" /\ arg = "not x == 'v'") =>
           /\ result = ~evaluateCondition("x == 'v'", state)
           /\ result = ~StrictEq(Get(state, "x"), Str("v"))

\* "a or b and c" was evaluated where the grouping matters
C15_Witness ==
    /\ op = "evaluateCondition"
    /\ arg = "a or b and c"
    /\ state = Put(Put(Put(EmptyState, "a", JsTrue), "b", JsTrue), "c", JsFalse)
    /\ result = TRUE

----------------------------------------------------------------------------
(* A condition that is one identifier, evaluated on the snapshot the       *)
(* caller supplies: SpecTruthy                                             *)

TruthyIdentifiers == {"k", "probe.probe_type", "constructor"}

\* '' is entered to clear a field
TruthyValues ==
    {Str(""), Str("0"), Str("a"), Num(0), Num(1), Tenths(-10), JsTrue, JsFalse}

\* the snapshots a caller of evaluateCondition starts from: the empty one
\* and one that holds an empty string
TruthySnapshots == {EmptyState, Put(EmptyState, "k", Str(""))}

TruthyInit ==
    /\ state \in TruthySnapshots
    /\ rules = NoRules
    /\ userOverrides = {}
    /\ group = NoGroup
    /\ op = "init"
    /\ arg = ""
    /\ result = NoResult

TruthyNext ==
    \/ \E key \in TruthyIdentifiers, value \in TruthyValues : EvalSetField(key, value)
    \/ \E k \in TruthyIdentifiers : Evaluate(k)
    \/ \E k \in TruthyIdentifiers : Evaluate("not " \o k)

SpecTruthy == TruthyInit /\ [][TruthyNext]_vars

\* absent, the empty string, the number 0 and false
Falsy(v) == v \in {Undefined, Str(""), Num(0), JsFalse}

\* C16: truthiness: for a condition that is a bare identifier k,
\* evaluateCondition returns false exactly when state[k] is absent, the
\* empty string, the number 0 or false, and true for every other scalar;
\* "not k" evaluates to the negation
C16_Truthiness ==
    op = "evaluateCondition" =>
        \A k \in TruthyIdentifiers :
            /\ arg = k => result = ~Falsy(Get(state, k))
            /\ arg = "not " \o k => result = Falsy(Get(state, k))

----------------------------------------------------------------------------
(* Membership tests evaluated on a wizard state: SpecMember                *)

MemberKeys == {"k", "constructor"}

MemberValues == {Str("a"), Str("c"), Str("1"), Num(1), Str("")}

\* the list literals, each with the values it denotes
MemberLists ==
    {<<"['a', 'b']", {Str("a"), Str("b")}>>,
     <<"[]", {}>>,
     <<"[1, 'c']", {Num(1), Str("c")}>>}

\* "k in L" and "k not in L" for every identifier and list literal
MemberConditions ==
    {k \o " in " \o l[1] : k \in MemberKeys, l \in MemberLists}
    \cup {k \o " not in " \o l[1] : k \in MemberKeys, l \in MemberLists}

MemberNext ==
    \/ \E key \in MemberKeys, value \in MemberValues : EvalSetField(key, value)
    \/ \E condition \in MemberConditions : Evaluate(condition)

SpecMember == EvalInit /\ [][MemberNext]_vars

\* the value v equals some element of the list
IsMember(v, elements) == \E e \in elements : StrictEq(v, e)

\* C17: membership: for every state, identifier k (present or absent) and
\* list literal L, "k in L" is true exactly when the value of k equals
\* some element of L, and "k not in L" is its negation
C17_Membership ==
    op = "evaluateCondition" =>
        \A k \in MemberKeys, l \in MemberLists :
            /\ arg = k \o " in " \o l[1] => result = IsMember(Get(state, k), l[2])
            /\ arg = k \o " not in " \o l[1] =>
                   /\ result = ~IsMember(Get(state, k), l[2])
                   /\ result = ~evaluateCondition(k \o " in " \o l[1], state)

----------------------------------------------------------------------------
(* The validation summary of a wizard state: SpecSummary                   *)

\* the (key, value) pairs the user enters; '' clears the field
SummaryInputs ==
    {<<"printer.kinematics", Str("corexy")>>,
     <<"printer.kinematics", Str("")>>,
     <<"mcu.main.board_type", Str("octopus")>>,
     <<"stepper_x.motor_port", Str("MOTOR_0")>>,
     <<"stepper_y.motor_port", Str("MOTOR_1")>>,
     <<"stepper_z.motor_port", Str("MOTOR_2")>>,
     <<"extruder.motor_port", Str("MOTOR_6")>>}

SummaryNext ==
    \/ \E kv \in SummaryInputs : ValSetField(kv[1], kv[2])
    \/ GetValidationSummary

SpecSummary == ValInit /\ [][SummaryNext]_vars

\* a table of five fields with the required flag and two fields that are
\* required under a condition only
FiveRequired == <<
    FieldDefinition("printer.kinematics", "Kinematics Type", TRUE, "",
        Undefined, Undefined, FALSE, <<>>, ""),
    FieldDefinition("mcu.main.board_type", "Mainboard Type", TRUE, "",
        Undefined, Undefined, FALSE, <<>>, ""),
    FieldDefinition("stepper_x.motor_port", "Stepper X Motor Port", TRUE, "",
        Undefined, Undefined, FALSE, <<>>, ""),
    FieldDefinition("stepper_y.motor_port", "Stepper Y Motor Port", TRUE, "",
        Undefined, Undefined, FALSE, <<>>, ""),
    FieldDefinition("stepper_z.motor_port", "Stepper Z Motor Port", TRUE, "",
        Undefined, Undefined, FALSE, <<>>, ""),
    FieldDefinition("extruder.motor_port", "Extruder Motor Port", FALSE, "printer.kinematics",
        Undefined, Undefined, FALSE, <<>>, ""),
    FieldDefinition("extruder.heater_port", "Extruder Heater Port", FALSE, "printer.kinematics",
        Undefined, Undefined, FALSE, <<>>, "") >>

\* the keys of the definitions with the required flag
RequiredKeys(defs) == {defs[i].key : i \in {j \in 1..Len(defs) : defs[j].required}}

\* the required keys whose value is present and not empty
FilledKeys(defs, st) ==
    {key \in RequiredKeys(defs) : key \in DOMAIN st /\ st[key] # Str("")}

\* 100 * filled / total rounded to the nearest integer, a half upwards
RoundedPercent(filled, total) ==
    CHOOSE p \in 0..100 :
        /\ 2 * total * p - total <= 200 * filled
        /\ 200 * filled < 2 * total * p + total

\* the completion the metric defines for the table defs in st
ExpectedCompletion(defs, st) ==
    RoundedPercent(Cardinality(FilledKeys(defs, st)), Cardinality(RequiredKeys(defs)))

\* C18: completion metric: completionPercent of getValidationSummary is
\* round(100 * filled / total), total counting the definitions with the
\* unconditional required flag only and filled those of them whose value
\* is present and not empty; it is an integer in 0..100; of five required
\* fields, two set give 40
C18_Completion ==
    op = "getValidationSummary" =>
        /\ result.completionPercent = ExpectedCompletion(FIELD_DEFINITIONS, state)
        /\ result.completionPercent \in 0..100
        /\ CompletionPercent(FiveRequired, state) = ExpectedCompletion(FiveRequired, state)
        /\ Cardinality(FilledKeys(FiveRequired, state)) = 2
               => CompletionPercent(FiveRequired, state) = 40

\* one of the two required fields is set, with fields that are required
\* under a condition only: the completion is 50, and 40 on the table of
\* five
C18_Witness ==
    /\ op = "getValidationSummary"
    /\ result.completionPercent = 50
    /\ "extruder.motor_port" \in DOMAIN state
    /\ "stepper_x.motor_port" \in DOMAIN state
    /\ Cardinality(FilledKeys(FiveRequired, state)) = 2
    /\ CompletionPercent(FiveRequired, state) = 40

----------------------------------------------------------------------------
(* The table of the exclusive groups and the diff of selectOption          *)

\* the keys option o lists in impliedValues
ImpliedKeys(o) == {e.key : e \in Range(o.impliedValues)}

\* C21: within every group of the built-in table no two distinct options
\* list the same key in impliedValues: the chosen option never shares an
\* implied key with a sibling option
C21_NoSharedImpliedKeys ==
    \A i, j \in 1..Len(group.options) :
        i # j => ImpliedKeys(group.options[i]) \cap ImpliedKeys(group.options[j]) = {}

\* a group with an option that both implies and clears a key, which no
\* option of the built-in table does
OverlapGroup ==
    ExclusiveGroup("sample", "Sample", "sample.mode", FALSE, <<
        Option("a", <<KV("sample.x", Num(1)), KV("sample.y", Num(2))>>,
               <<"sample.x", "sample.z">>, ""),
        Option("b", <<KV("sample.w", Num(3))>>, <<>>, ""),
        Plain("c") >>)

SelectInit ==
    /\ state = EmptyState
    /\ rules = NoRules
    /\ userOverrides = {}
    /\ group \in Range(EXCLUSIVE_GROUPS) \cup {OverlapGroup}
    /\ op = "init"
    /\ arg = ""
    /\ result = NoResult

SpecSelect == SelectInit /\ [][GroupNext]_vars

\* the option of the group selectOption was called with, if there is one
Chosen == group.options[FindOption(group.options, arg, 1)]

SelectedExisting ==
    op = "selectOption" /\ FindOption(group.options, arg, 1) # 0

SelectedUnknown ==
    op = "selectOption" /\ FindOption(group.options, arg, 1) = 0

\* C22: the diff of selectOption for an existing option maps the target key
\* of the group to the chosen option value, every key of the chosen option's
\* impliedValues to its implied value and every key of its clearValues to
\* DELETE; clearValues are applied last, so a key that the chosen option both
\* implies and clears is mapped to DELETE
C22_DiffShape ==
    SelectedExisting =>
        /\ Get(result.changes, group.stateKey) = Str(arg)
        /\ \A e \in Range(Chosen.impliedValues) :
               e.key \notin Range(Chosen.clearValues)
                   => e.key \in DOMAIN result.changes /\ result.changes[e.key] = e.value
        /\ \A key \in Range(Chosen.clearValues) :
               key \in DOMAIN result.changes /\ result.changes[key] = Undefined

\* an option that implies and clears the same key was selected
C22_Witness ==
    /\ SelectedExisting
    /\ ImpliedKeys(Chosen) \cap Range(Chosen.clearValues) # {}
    /\ ImpliedKeys(Chosen) \ Range(Chosen.clearValues) # {}

\* C30: selectOption called with an option value that no option of the group
\* has returns a diff with exactly one entry, the target key of the group
\* mapped to DELETE: no implied key of any option is retracted
C30_UnknownOption ==
    SelectedUnknown =>
        /\ DOMAIN result.changes = {group.stateKey}
        /\ result.changes[group.stateKey] = Undefined
        /\ \A key \in SideKeys(group) \ {group.stateKey} :
               Get(state, key) = Get(result.before, key)

\* an unknown option was selected in a state that holds a key an option of
\* the group implies, and the key is still there
C30_Witness ==
    /\ SelectedUnknown
    /\ \E i \in 1..Len(group.options) :
           \E key \in ImpliedKeys(group.options[i]) :
               key \in DOMAIN result.before /\ key \in DOMAIN state

----------------------------------------------------------------------------
(* The wizard store with its history: SpecStore *)

\* mutations are made while they leave at most MaxSnapshots snapshots
MaxSnapshots == 3

KinematicsGroup == EXCLUSIVE_GROUPS[1]

\* the key the user edits and the values handed to setField
StoreKey == "printer.awd_enabled"
StoreValues == {Undefined, Null, Str(""), Arr(<<>>), Num(0), JsFalse}

\* the diffs handed to setFields: that of selecting a kinematics without
\* all wheel drive, which marks printer.awd_enabled as deleted, and diffs
\* from elsewhere
StoreDiffs ==
    {selectOption(KinematicsGroup, "cartesian"),
     Put(EmptyState, StoreKey, Num(0)),
     Put(Put(EmptyState, StoreKey, Null), "printer.kinematics", Str(""))}

\* the saved states handed to loadState
StoreLoads ==
    {Put(EmptyState, StoreKey, Arr(<<>>)),
     Put(Put(EmptyState, StoreKey, JsFalse), "printer.kinematics", Null),
     Put(Put(EmptyState, StoreKey, Str("")), "printer.kinematics", Str("cartesian"))}

StoreInit ==
    /\ state = InitialStore
    /\ rules = NoRules
    /\ userOverrides = {}
    /\ group = NoGroup
    /\ op = "init"
    /\ arg = ""
    /\ result = [before |-> EmptyState]

\* every operation leaves in result the wizard state it was called in
Called(name, key) ==
    /\ op' = name
    /\ arg' = key
    /\ result' = [before |-> state.state]
    /\ UNCHANGED <<rules, userOverrides, group>>

StoreSetField(key, value) ==
    /\ state' = Mutated(state, setField(state.state, key, value))
    /\ Called("setField", key)

StoreSetFields(fields) ==
    /\ state' = Mutated(state, setFields(state.state, fields))
    /\ Called("setFields", "")

StoreDeleteField(key) ==
    /\ state' = Mutated(state, deleteField(state.state, key))
    /\ Called("deleteField", key)

StoreLoadState(newState) ==
    /\ state' = Mutated(state, loadState(newState))
    /\ Called("loadState", "")

ResetState ==
    /\ state' = resetState(state)
    /\ Called("resetState", "")

Undo ==
    /\ state' = undo(state)
    /\ Called("undo", "")

Redo ==
    /\ state' = redo(state)
    /\ Called("redo", "")

\* a mutation now leaves at most MaxSnapshots snapshots
Room == state.historyIndex + 2 <= MaxSnapshots

StoreNext ==
    \/ Room /\ \E value \in StoreValues : StoreSetField(StoreKey, value)
    \/ Room /\ \E fields \in StoreDiffs : StoreSetFields(fields)
    \/ Room /\ StoreDeleteField(StoreKey)
    \/ Room /\ \E newState \in StoreLoads : StoreLoadState(newState)
    \/ Room /\ ResetState
    \/ Undo
    \/ Redo

SpecStore == StoreInit /\ [][StoreNext]_vars

Mutations == {"setField", "setFields", "deleteField", "loadState", "resetState"}

\* C23: undo restores the previous state: after a mutation took the wizard
\* state from S to S', one call of undo makes the state S again, also when
\* the mutation was the first one ever made
C23_UndoRestores ==
    [][(op \in Mutations /\ op' = "undo") => state'.state = result.before]_vars

\* C24: whenever undo changes the state, a redo that follows immediately
\* restores the state that was current before the undo
C24_UndoRedo ==
    [][(op = "undo" /\ state.state # result.before /\ op' = "redo")
           => state'.state = result.before]_vars

\* the values the store never holds
EmptyValues == {Undefined, Null, Str(""), Arr(<<>>)}

NoEmptyValues(st) == \A key \in DOMAIN st : st[key] \notin EmptyValues

\* C25: no key of the store state has the value undefined, null, '' or [],
\* whatever setField, setFields, deleteField, loadState, resetState, undo
\* and redo were called from the empty state on; the same holds of every
\* snapshot; 0 and false are kept as present values by setField
C25_NoEmptyValues ==
    /\ [](NoEmptyValues(state.state)
          /\ \A i \in 1..Len(state.history) : NoEmptyValues(state.history[i]))
    /\ [][\A value \in {Num(0), JsFalse} :
              StoreSetField(StoreKey, value) => Get(state'.state, StoreKey) = value]_vars

\* false is in the state next to a key that a diff with a DELETE marker set
C25_Witness ==
    /\ op = "setField"
    /\ Get(state.state, StoreKey) = JsFalse
    /\ Get(state.state, "printer.kinematics") = Str("cartesian")
    /\ Get(result.before, StoreKey) = Undefined

----------------------------------------------------------------------------
(* The history up to its limit: SpecHistory *)

\* the field is edited while the history is short; resetState, undo and
\* redo are called at any time
Early == state.historyIndex + 2 <= MaxSnapshots

HistoryNext ==
    \/ Early /\ \E value \in {Num(0), Str("")} : StoreSetField(StoreKey, value)
    \/ ResetState
    \/ Undo
    \/ Redo

SpecHistory == StoreInit /\ [][HistoryNext]_vars

\* what a mutation leaves of the history: the snapshots up to historyIndex
\* and the state it was called in, without the oldest one over the limit
Appended == Append(SubSeq(state.history, 1, state.historyIndex + 1), state.state)

LastOf(snapshots) ==
    IF Len(snapshots) > HistoryLimit THEN Tail(snapshots) ELSE snapshots

\* C26: the history holds at most 20 snapshots and
\* -1 <= historyIndex <= history.length - 1 in every reachable state; a
\* mutation made after undo discards the snapshots after historyIndex
\* before it appends
C26_HistoryBounds ==
    /\ [](/\ Len(state.history) <= 20
          /\ -1 <= state.historyIndex
          /\ state.historyIndex <= Len(state.history) - 1)
    /\ [][op' \in Mutations =>
              /\ state'.history = LastOf(Appended)
              /\ state'.historyIndex = Len(state'.history) - 1]_vars

\* the oldest snapshot is no longer the initial state, so the limit was
\* passed, and a mutation made after undo has left fewer than 20 snapshots
C26_Witness ==
    /\ op \in Mutations
    /\ state.history[1] # EmptyState
    /\ Len(state.history) < 20
    /\ state.historyIndex = Len(state.history) - 1
----------------------------------------------------------------------------
(* The built-in implication table on the states its conditions tell apart: *)
(* SpecTable                                                               *)

\* the (key, value) pairs a user enters: every key that a condition of two
\* rules with a common target reads, with the values the conditions name
TableInputs ==
    {<<"printer.kinematics", Str(v)>> : v \in {"corexy-awd", "hybrid_corexy", "cartesian", ""}}
    \cup {<<"probe.probe_type", Str(v)>> : v \in {"tap", "bltouch", "beacon", "cartographer", ""}}
    \cup {<<"probe.homing_mode", Str(v)>> : v \in {"contact", "touch", ""}}
    \cup {<<"z_config.motor_count", Num(n)>> : n \in 2..MaxMotorCount}
    \cup {<<"z_config.motor_count", Str("")>>}

TableInit ==
    /\ state = EmptyState
    /\ rules = IMPLICATIONS
    /\ userOverrides \in SUBSET {"leveling.type"}
    /\ group = NoGroup
    /\ op = "init"
    /\ arg = ""
    /\ result = NoResult

TableNext ==
    \/ \E kv \in TableInputs : ImplSetField(kv[1], kv[2])
    \/ GetImplicationChanges

SpecTable == TableInit /\ [][TableNext]_vars

\* the rules of the table whose condition holds in st
Firing(table, st) ==
    {i \in 1..Len(table) : evaluateCondition(table[i].condition, st)}

\* rules i and j of the table give some key two different values
Disagree(table, i, j) ==
    \E e \in Range(table[i].setValues), f \in Range(table[j].setValues) :
        e.key = f.key /\ e.value # f.value

\* the table in the opposite declaration order with the opposite priorities
RECURSIVE Reversed(_)
Reversed(table) ==
    IF table = <<>> THEN <<>>
    ELSE Append(Reversed(Tail(table)),
                [Head(table) EXCEPT !.priority = 0 - Head(table).priority])

\* C27: the built-in implication table is conflict-free: in every state no
\* two rules of IMPLICATIONS whose conditions are both true give different
\* values to the same key, so the changed values of applyImplications on
\* the built-in table do not depend on priority or declaration order
C27_ConflictFree ==
    /\ \A i \in Firing(rules, state) : \A j \in Firing(rules, state) :
           ~Disagree(rules, i, j)
    /\ op = "applyImplications" =>
           result.changedValues
               = applyImplications(Reversed(rules), state, userOverrides).changedValues

\* rules of different priorities fire at once and change values, and rules
\* that disagree on a key are in the table
C27_Witness ==
    /\ op = "applyImplications"
    /\ \E i, j \in Firing(rules, state) : rules[i].priority # rules[j].priority
    /\ Cardinality(DOMAIN result.changedValues) >= 3
    /\ \E i, j \in 1..Len(rules) : Disagree(rules, i, j)

----------------------------------------------------------------------------
(* The implications merged into states with all wheel drive: SpecRepair *)

\* the (key, value) pairs a user enters
RepairInputs ==
    {<<"printer.kinematics", Str(v)>> :
        v \in {"corexy-awd", "hybrid_corexy", "corexy", "cartesian", ""}}
    \cup {<<"printer.awd_enabled", v>> : v \in {JsTrue, JsFalse, Num(1), Str("")}}
    \cup {<<"z_config.motor_count", Num(n)>> : n \in {MaxMotorCount}}

\* the override sets a caller passes
RepairOverrides == SUBSET {"printer.awd_enabled", "printer.kinematics"}

RepairInit ==
    /\ state = EmptyState
    /\ rules = IMPLICATIONS
    /\ userOverrides = {}
    /\ group = NoGroup
    /\ op = "init"
    /\ arg = ""
    /\ result = NoResult

\* applyImplications with the override set, its changed values merged by
\* setFields when there are any; result keeps the state before the merge
MergeImplications(overrides) ==
    LET changedValues == applyImplications(rules, state, overrides).changedValues IN
    /\ op' = "applyImplicationsToState"
    /\ arg' = ""
    /\ userOverrides' = overrides
    /\ result' = [changedValues |-> changedValues, before |-> state]
    /\ state' = IF DOMAIN changedValues # {}
                THEN setFields(state, changedValues) ELSE state
    /\ UNCHANGED <<rules, group>>

RepairNext ==
    \/ \E kv \in RepairInputs : ImplSetField(kv[1], kv[2])
    \/ \E overrides \in RepairOverrides : MergeImplications(overrides)

SpecRepair == RepairInit /\ [][RepairNext]_vars

\* the conflict rule with the given id
ConflictRuleById(id) ==
    CONFLICT_RULES[CHOOSE i \in 1..Len(CONFLICT_RULES) : CONFLICT_RULES[i].id = id]

\* the conflict rule with the given id fires in st
Fires(id, st) == evaluateCondition(ConflictRuleById(id).condition, st)

\* C28: the implications repair the all wheel drive conflict: in the state
\* that merging the changed values of applyImplications leaves, whatever
\* the state and the override set were, the conflict rule awd_needs_corexy
\* does not fire: printer.awd_enabled is true only when printer.kinematics
\* is 'corexy-awd' or 'hybrid_corexy'
C28_AwdRepaired ==
    op = "applyImplicationsToState" =>
        /\ ~Fires("awd_needs_corexy", state)
        /\ Get(state, "printer.awd_enabled") = JsTrue
               => Get(state, "printer.kinematics")
                      \in {Str("corexy-awd"), Str("hybrid_corexy")}

\* the conflict rule fired before the merge, and the user had set
\* printer.awd_enabled
C28_Witness ==
    /\ op = "applyImplicationsToState"
    /\ Fires("awd_needs_corexy", result.before)
    /\ "printer.awd_enabled" \in userOverrides
    /\ Get(state, "printer.awd_enabled") = JsFalse

----------------------------------------------------------------------------
(* Selections among the available options: SpecAvail *)

GroupById(id) ==
    EXCLUSIVE_GROUPS[CHOOSE i \in 1..Len(EXCLUSIVE_GROUPS) : EXCLUSIVE_GROUPS[i].id = id]

AvailGroups == {"leveling_type", "x_endstop_type", "y_endstop_type"}

DriverTypes == {Str("tmc2209"), Str("tmc2130"), Str("a4988"), Str("")}

\* the (key, value) pairs a user enters: the keys the availability
\* conditions of the group read
AvailInputs(grp) ==
    CASE grp.id = "leveling_type" ->
             {<<"z_config.motor_count", Num(n)>> : n \in 1..MaxMotorCount}
             \cup {<<"z_config.motor_count", Str("3")>>, <<"z_config.motor_count", Str("")>>}
             \cup {<<"probe.probe_type", Str("none")>>, <<"probe.probe_type", Str("tap")>>}
      [] grp.id = "x_endstop_type" -> {<<"stepper_x.driver_type", v>> : v \in DriverTypes}
      [] grp.id = "y_endstop_type" -> {<<"stepper_y.driver_type", v>> : v \in DriverTypes}

AvailInit ==
    /\ state = EmptyState
    /\ rules = NoRules
    /\ userOverrides = {}
    /\ group \in {GroupById(id) : id \in AvailGroups}
    /\ op = "init"
    /\ arg = ""
    /\ result = NoResult

AvailNext ==
    \/ \E kv \in AvailInputs(group) : GroupSetField(kv[1], kv[2])
    \/ \E optionValue \in OptionValues(group) : SelectOption(optionValue)

SpecAvail == AvailInit /\ [][AvailNext]_vars

\* the conflict rules on the choices of the three groups
AvailConflicts ==
    {"z_tilt_requires_2_or_3_motors", "qgl_requires_4_motors",
     "sensorless_needs_stallguard_x", "sensorless_needs_stallguard_y"}

\* getAvailableOptions listed the selected option in the state before
WasAvailable == Chosen \in Range(getAvailableOptions(group, result.before))

\* C29: for the leveling, X endstop and Y endstop groups: when
\* getAvailableOptions lists an option in state S, then after the merge of
\* selectOption's diff for it into S none of the conflict rules
\* z_tilt_requires_2_or_3_motors, qgl_requires_4_motors,
\* sensorless_needs_stallguard_x and sensorless_needs_stallguard_y fires;
\* selectOption does not check the availability condition: it returns its
\* diff for an option that is not available too
C29_AvailableConflictFree ==
    SelectedExisting =>
        /\ WasAvailable => \A id \in AvailConflicts : ~Fires(id, state)
        /\ result.changes = selectOption(group, arg)
        /\ Get(state, group.stateKey) = Str(arg)

\* an option with an availability condition was selected where it holds
C29_Witness ==
    /\ SelectedExisting
    /\ Chosen.condition # ""
    /\ WasAvailable
    /\ arg \in {"z_tilt", "quad_gantry_level", "sensorless"}

====
